---------------------------- MODULE Spec2Model ----------------------------
(***************************************************************************)
(* Model of the request-routing core of WebAI2API:                         *)
(*   - the failover executor      (src/src/backend/failover.js)            *)
(*   - the Worker                 (src/unnamed/part_003)                   *)
(*   - the response transport    (src/src/server/http/respond.js)          *)
(*   - request admission         (section 4.5 of the specification)        *)
(*   - configuration loading     (src/unnamed/part_006)                    *)
(* Each component has its own specification (SpecFailover, Spec, SpecPool, *)
(* SpecInit, SpecQuery, SpecRespond, SpecAdmission, SpecLoad); the         *)
(* variables of the other components stay idle.                            *)
(* JavaScript strings are modelled as sequences of tokens, so that         *)
(* concatenation is \o, `includes` is a sub-sequence test and              *)
(* `split('/', 2)` keeps the first two segments of a model key.            *)
(***************************************************************************)
EXTENDS Integers, Sequences, FiniteSets, TLC

\* ------------------------------------------------------------------------
\* Bounds
\* ------------------------------------------------------------------------
MaxCandidates == 4
MaxRetriesBound == 3

\* ------------------------------------------------------------------------
\* Helpers for JavaScript values
\* ------------------------------------------------------------------------
Min(a, b) == IF a < b THEN a ELSE b

Range(s) == {s[k] : k \in 1..Len(s)}

\* str.includes(sub) on token sequences
Contains(str, sub) ==
    \E k \in 0..(Len(str) - Len(sub)) : SubSeq(str, k + 1, k + Len(sub)) = sub

\* The absent / falsy value of a string field (undefined, null, '').
Absent == <<>>

\* All sequences without repetition over S of length 0..n
RECURSIVE InjSeqs(_, _)
InjSeqs(S, n) ==
    IF n = 0 THEN {<<>>}
    ELSE LET shorter == InjSeqs(S, n - 1)
         IN  shorter \cup UNION {{Append(t, x) : x \in S \ Range(t)} :
                                    t \in {u \in shorter : Len(u) = n - 1}}

\* ------------------------------------------------------------------------
\* Failover executor state (createFailoverExecutor / execute)
\* ------------------------------------------------------------------------
VARIABLES
    maxRetries,     \* options.maxRetries of the executor
    candidates,     \* the list passed to execute
    fo_pc,          \* "idle" | "awaiting" (inside `await execute(candidate)`) | "done"
    i,              \* loop index of execute (0-based, as in the source)
    lastError,      \* lastError of execute
    attempts,       \* candidates the attempt function was called with, in call order
    outcomes,       \* how each attempt ended: [kind: "ok" | "error" | "throw", error]
    retryLog,       \* the onRetry calls made: <<candidate, error, attemptIndex>>
    fo_result       \* the value execute resolved to

vars_fo == <<maxRetries, candidates, fo_pc, i, lastError, attempts, outcomes,
             retryLog, fo_result>>

\* ------------------------------------------------------------------------
\* Worker state (class Worker) and the registry it consults
\* ------------------------------------------------------------------------
VARIABLES
    registry,       \* per adapter type: "none" (model m unknown) or m's image policy
    adapters,       \* the adapter types registry.getAdapter has an adapter for
    workerType,     \* this.type: "merge" or an adapter type
    mergeTypes,     \* this.mergeTypes
    failoverConfig, \* globalConfig.backend.pool.failover: [enabled, maxRetries]
    busyCount,      \* this.busyCount
    tasks           \* the generate calls made on the Worker, by caller

vars_cfg == <<registry, adapters, workerType, mergeTypes, failoverConfig>>
vars_w == <<busyCount, tasks>>

\* ------------------------------------------------------------------------
\* Worker.init state, and the answer of the last query method called
\* ------------------------------------------------------------------------
VARIABLES
    initialized,        \* this.initialized
    initCalls,          \* the init calls made on the Worker, by caller
    browsersLaunched,   \* completed initBrowserBase launches
    pagesCreated,       \* pages assigned to this.page
    listenersInstalled, \* page.on('framenavigated', ...) registrations
    loginMode,          \* process.argv has a -login argument
    hasHandlers,        \* the adapters have navigation handlers registered
    urlTypes,           \* the adapter types registry.getTargetUrl has a URL for
    answer              \* [op, key, result, models] of the last query method call

vars_init == <<initialized, initCalls, browsersLaunched, pagesCreated,
               listenersInstalled, loginMode, hasHandlers, urlTypes>>
vars_q == <<answer>>

\* ------------------------------------------------------------------------
\* HTTP response state (src/src/server/http/respond.js), admission state
\* (section 4.5) and configuration loading state (src/unnamed/part_006)
\* ------------------------------------------------------------------------
VARIABLES
    res,            \* the ServerResponse: writableEnded, headersSent, statusCode,
                    \* contentType and the chunks written to it, in order
    lastCall,       \* the last transport call made on res and whether it wrote
    queueFile,      \* the queue block of the configuration file the server read
    queueConfig,    \* config.queue after loadConfig: [queueBuffer, maxConcurrent]
    requests,       \* per request: [stream, state] with state "none" (not yet
                    \* sent), "rejected", "queued", "running" or "done"
    queue,          \* the admitted requests waiting for a Worker, oldest first
    busy,           \* per Worker: its busy counter
    configFile,     \* the parsed configuration file given to loadConfig
    loaded          \* what loadConfig produced: [state, error, workers, queue]

vars_res == <<res, lastCall>>
vars_adm == <<queueFile, queueConfig, requests, queue, busy>>
vars_load == <<configFile, loaded>>
vars_srv == <<vars_res, vars_adm, vars_load>>

\* ------------------------------------------------------------------------
\* Strategy selectors (createStrategySelector, src/unnamed/part_003)
\* ------------------------------------------------------------------------
VARIABLES
    strategy,           \* per selector: the strategy name it was created with
    roundRobinIndex,    \* per selector: roundRobinIndex of its closure
    selCall,            \* the last sort / select call: the selector, the array
                        \* passed, that array after the call, the array sort
                        \* returned and the value select returned
    streak              \* the latest consecutive round_robin sort calls of one
                        \* selector on one list: [selector, list, heads], the
                        \* heads returned oldest first, at most one per candidate

vars_sel == <<strategy, roundRobinIndex, selCall, streak>>

\* ------------------------------------------------------------------------
\* Page state: the page-auth flag and the calls that wait on it
\* (src/unnamed/part_004)
\* ------------------------------------------------------------------------
VARIABLES
    hasAuthState,       \* page.authState is defined
    isHandlingAuth,     \* page.authState.isHandlingAuth
    handlerPc,          \* per navigation handler: "idle" or "critical" (between
                        \* its lockPageAuth and its unlockPageAuth)
    authWait,           \* the waitForPageAuth call: [pc, slept]
    inputCall           \* the waitForInput call: [pc, timeout, elapsed, click] and
                        \* whether the flag was set when the input was found,
                        \* clicked and returned

vars_auth == <<hasAuthState, isHandlingAuth, handlerPc, authWait, inputCall>>

\* The 'framenavigated' listener of a Worker's page
VARIABLES
    navLog              \* the navigation events so far and their handler chains
vars_nav == <<navLog>>


\* A page with a waitApiResponse call and a pasteImages call on it
VARIABLES
    pageState,          \* "open", "crashed" or "closed"
    closeListeners,     \* listeners of 'close' registered by waitApiResponse
    crashListeners,     \* listeners of 'crash' registered by waitApiResponse
    responseListeners,  \* listeners of 'response' registered by pasteImages
    apiCall,            \* the waitApiResponse call: [pc, result, calls]
    paste               \* the pasteImages call
vars_ops == <<pageState, closeListeners, crashListeners, responseListeners,
              apiCall, paste>>

\* The configuration file as the administrative interface reads and saves it
VARIABLES
    rawConfig,         \* [proxy, instances]: the global proxy block and
                        \* backend.pool.instances of the file
    cfgOriginal,        \* the instances of the file before any save
    cfgData             \* what getInstancesConfig returned, not yet saved
vars_cf == <<rawConfig, cfgOriginal, cfgData>>

\* Worker.navigateToMonitor
VARIABLES
    mergeMonitor,       \* this.mergeMonitor: an adapter type or "none"
    monitorPage,        \* this.page: [closed, onMonitor (its URL is on the
                        \* monitor's host), hasUrl (the monitor has a target URL)]
    monitorCall         \* the navigateToMonitor call: [pc, navigated]
vars_mon == <<mergeMonitor, monitorPage, monitorCall>>

vars_page == <<vars_auth, vars_nav, vars_ops, vars_cf, vars_mon>>
\* What the actions of one of these components leave alone in the others
others_auth == <<vars_nav, vars_ops, vars_cf, vars_mon>>
others_nav == <<vars_auth, vars_ops, vars_cf, vars_mon>>
others_ops == <<vars_auth, vars_nav, vars_cf, vars_mon>>
others_cf == <<vars_auth, vars_nav, vars_ops, vars_mon>>
others_mon == <<vars_auth, vars_nav, vars_ops, vars_cf>>

vars == <<vars_fo, vars_cfg, vars_w, vars_init, vars_q, vars_srv, vars_sel, vars_page>>

\* A response nothing has been written to, and no call made yet.
FreshRes == [writableEnded |-> FALSE, headersSent |-> FALSE, statusCode |-> 0,
             contentType |-> "none", chunks |-> <<>>]
NoCall == [fn |-> "none", wrote |-> FALSE]
ResIdle == res = FreshRes /\ lastCall = NoCall

AdmIdle ==
    /\ queueFile = [present |-> FALSE, hasQueueBuffer |-> FALSE, queueBuffer |-> 0]
    /\ queueConfig = [queueBuffer |-> 0, maxConcurrent |-> 0]
    /\ requests = <<>>
    /\ queue = <<>>
    /\ busy = <<>>

NotLoaded == [state |-> "none", error |-> "", workers |-> <<>>,
              queue |-> [queueBuffer |-> 0, maxConcurrent |-> 0]]
NoConfigFile == [proxy |-> [present |-> FALSE, enable |-> "undefined",
                            server |-> ""],
                 queue |-> [present |-> FALSE, hasQueueBuffer |-> FALSE,
                            queueBuffer |-> 0],
                 instances |-> <<>>]
LoadIdle == configFile = NoConfigFile /\ loaded = NotLoaded

ServerIdle == ResIdle /\ AdmIdle /\ LoadIdle

Selectors == {"s1", "s2"}
NoCandidate == [id |-> 0, busyCount |-> 0]
NoSelCall == [selector |-> "none", op |-> "none", input |-> <<>>,
              inputAfter |-> <<>>, sorted |-> <<>>, picked |-> NoCandidate]
MaxHandlers == 2
Handlers == 1..MaxHandlers
NoAuthWait == [pc |-> "idle", slept |-> FALSE]
NoInputCall == [pc |-> "idle", timeout |-> 0, elapsed |-> 0, click |-> FALSE,
                foundLocked |-> FALSE, clickLocked |-> FALSE, returnLocked |-> FALSE]
AuthIdle ==
    /\ hasAuthState = FALSE
    /\ isHandlingAuth = FALSE
    /\ handlerPc = [h \in Handlers |-> "idle"]
    /\ authWait = NoAuthWait
    /\ inputCall = NoInputCall
NavIdle == navLog = <<>>
NoApiCall == [pc |-> "idle", result |-> "none", calls |-> 0,
              entry |-> "none", exit |-> "none"]
NoPaste == [pc |-> "idle", files |-> 0, validator |-> FALSE, validated |-> 0,
            responses |-> 0, timedOut |-> FALSE]
OpsIdle ==
    /\ pageState = "open"
    /\ closeListeners = {}
    /\ crashListeners = {}
    /\ responseListeners = 0
    /\ apiCall = NoApiCall
    /\ paste = NoPaste
NoData == [read |-> FALSE, instances |-> <<>>]
CfIdle ==
    /\ rawConfig = [proxy |-> [present |-> FALSE], instances |-> <<>>]
    /\ cfgOriginal = <<>>
    /\ cfgData = NoData
NoMonitorCall == [pc |-> "idle", navigated |-> FALSE, noop |-> FALSE]
MonIdle ==
    /\ mergeMonitor = "none"
    /\ monitorPage = [closed |-> FALSE, onMonitor |-> FALSE, hasUrl |-> FALSE]
    /\ monitorCall = NoMonitorCall
PageIdle == AuthIdle /\ NavIdle /\ OpsIdle /\ CfIdle /\ MonIdle

NoStreak == [selector |-> "none", list |-> <<>>, heads |-> <<>>]
SelIdle ==
    /\ strategy = [s \in Selectors |-> "least_busy"]
    /\ roundRobinIndex = [s \in Selectors |-> 0]
    /\ selCall = NoSelCall
    /\ streak = NoStreak


CandidateIds == 1..MaxCandidates

\* Error strings an attempt can report (spec 4.8) and an exception message.
ErrTimeout == <<"Timeout">>
ErrCaptcha == <<"recaptcha validation failed">>
ErrImageForbidden == <<"IMAGE_FORBIDDEN">>
ErrorStrings == {ErrTimeout, ErrCaptcha, ErrImageForbidden}
ThrowMessages == {<<"boom">>}

NoResult == [error |-> Absent, code |-> "", value |-> 0]

\* A result object of the attempt function: {error?, ...result}
Success(c) == [error |-> Absent, code |-> "", value |-> c]
Failure(e) == [error |-> e, code |-> "", value |-> 0]

\* normalizeError(error).retryable
normalizeErrorRetryable(err) ==
    \/ Contains(err, ErrTimeout)
    \/ Contains(err, ErrCaptcha)

\* maxAttempts of execute
maxAttemptsBad(mr, n) == Min(mr + 1, n)
maxAttempts(mr, n) == IF mr = 0 THEN n ELSE Min(mr + 1, n)

EmptyCandidatesResult == [error |-> <<"no candidates available">>, code |-> "", value |-> 0]

ExhaustedResultBad(err) ==
    [error |-> <<"all candidates failed: ">> \o err, code |-> "", value |-> 0]
ExhaustedResult(err) ==
    [error |-> <<"all candidates failed: ">> \o err, code |-> "FAILOVER_EXHAUSTED", value |-> 0]

\* !result.error
IsSuccess(result) == result.error = Absent

\* The loop condition after a failed attempt (lines 55, 70-74): the
\* classification of the error is only logged, it never ends the loop.
shouldContinueStopOnFatal(err, nextI, ma) == nextI < ma /\ normalizeErrorRetryable(err)
shouldContinue(err, nextI, ma) == nextI < ma

\* The executor is not in use (specifications of other components).
FoIdle ==
    /\ maxRetries = 0
    /\ candidates = <<>>
    /\ fo_pc = "unused"
    /\ i = 0
    /\ lastError = Absent
    /\ attempts = <<>>
    /\ outcomes = <<>>
    /\ retryLog = <<>>
    /\ fo_result = NoResult

FoInit ==
    /\ maxRetries \in 0..MaxRetriesBound
    /\ candidates = <<>>
    /\ fo_pc = "idle"
    /\ i = 0
    /\ lastError = Absent
    /\ attempts = <<>>
    /\ outcomes = <<>>
    /\ retryLog = <<>>
    /\ fo_result = NoResult

\* execute(candidates, execute, meta) up to its first await
Execute(cs) ==
    /\ fo_pc = "idle"
    /\ candidates' = cs
    /\ IF Len(cs) = 0
       THEN /\ fo_result' = EmptyCandidatesResult
            /\ fo_pc' = "done"
            /\ attempts' = attempts
       ELSE /\ fo_result' = fo_result
            /\ IF 0 < maxAttempts(maxRetries, Len(cs))
               THEN fo_pc' = "awaiting" /\ attempts' = Append(attempts, cs[1])
               ELSE fo_pc' = "done" /\ attempts' = attempts
    /\ UNCHANGED <<maxRetries, i, lastError, outcomes, retryLog>>
    /\ UNCHANGED <<vars_cfg, vars_w, vars_init, vars_q, vars_srv, vars_sel, vars_page>>

\* onRetry is called after the failed attempt of loop index idx (lines 77, 83).
\* It is a logging callback and returns normally.
callsOnRetryAlways(idx, ma) == TRUE
callsOnRetry(idx, ma) == idx < ma - 1

\* The rest of one loop iteration after a failed attempt with error err:
\* onRetry, i++, and either the next call of the attempt function or the
\* exhausted result.
AfterFailure(err, kind) ==
    LET ma == maxAttempts(maxRetries, Len(candidates))
    IN  /\ lastError' = err
        /\ outcomes' = Append(outcomes, [kind |-> kind, error |-> err])
        /\ retryLog' = IF callsOnRetry(i, ma)
                       THEN Append(retryLog, <<candidates[i + 1], err, i + 1>>)
                       ELSE retryLog
        /\ i' = i + 1
        /\ IF shouldContinue(err, i + 1, ma)
           THEN /\ attempts' = Append(attempts, candidates[i + 2])
                /\ fo_pc' = "awaiting"
                /\ fo_result' = fo_result
           ELSE /\ attempts' = attempts
                /\ fo_pc' = "done"
                /\ fo_result' = ExhaustedResult(err)
        /\ UNCHANGED <<maxRetries, candidates>>
        /\ UNCHANGED <<vars_cfg, vars_w, vars_init, vars_q, vars_srv, vars_sel, vars_page>>

\* `await execute(candidate)` resolves with a result object
AttemptReturns(result) ==
    /\ fo_pc = "awaiting"
    /\ IF IsSuccess(result)
       THEN /\ fo_result' = result
            /\ fo_pc' = "done"
            /\ outcomes' = Append(outcomes, [kind |-> "ok", error |-> Absent])
            /\ UNCHANGED <<maxRetries, candidates, i, lastError, attempts, retryLog>>
            /\ UNCHANGED <<vars_cfg, vars_w, vars_init, vars_q, vars_srv, vars_sel, vars_page>>
       ELSE AfterFailure(result.error, "error")

\* `await execute(candidate)` rejects: catch (err)
AttemptThrowsPropagates(msg) ==
    /\ fo_pc = "awaiting"
    /\ outcomes' = Append(outcomes, [kind |-> "throw", error |-> msg])
    /\ fo_pc' = "done"
    /\ fo_result' = Failure(msg)
    /\ UNCHANGED <<maxRetries, candidates, i, lastError, attempts, retryLog>>
    /\ UNCHANGED <<vars_cfg, vars_w, vars_init, vars_q, vars_srv, vars_sel, vars_page>>
AttemptThrows(msg) ==
    /\ fo_pc = "awaiting"
    /\ AfterFailure(msg, "throw")

\* ------------------------------------------------------------------------
\* Registry (registry.js is not part of the sources; modelled from spec 4.1)
\* ------------------------------------------------------------------------
AdapterTypes == {"a", "b", "c", "d"}
ModelM == <<"m">>
Policies == {"forbidden", "optional", "required"}

\* registry.supportsModel(type, modelId): an adapter knows plain ids only.
supportsModel(type, modelId) ==
    /\ type \in AdapterTypes
    /\ modelId = ModelM
    /\ registry[type] # "none"

\* registry.getImagePolicy(type, modelId)
registryImagePolicy(type, modelId) ==
    IF supportsModel(type, modelId) THEN registry[type] ELSE "optional"

\* registry.getAdapter(type) is not null
getAdapter(type) == type \in adapters

\* ------------------------------------------------------------------------
\* Model keys: a key is the sequence of its '/'-separated segments
\* ------------------------------------------------------------------------
\* modelKey.includes('/')
includesSlash(modelKey) == Len(modelKey) > 1

\* modelKey.split('/', 2)[0] and [1]
specifiedTypeOf(modelKey) == modelKey[1]
actualModelOf(modelKey) == <<modelKey[2]>>

ModelKeys ==
    {ModelM, <<"x">>, <<"a", "x">>, <<"a", "m", "x">>}
        \cup {<<t, "m">> : t \in AdapterTypes}

\* ------------------------------------------------------------------------
\* Worker: pure methods
\* ------------------------------------------------------------------------
\* this.mergeTypes.includes(type)
isMember(type) == type \in Range(mergeTypes)

\* Worker.supports(modelId)
supportsPlainOnly(modelId) ==
    IF workerType = "merge"
    THEN \E k \in 1..Len(mergeTypes) : supportsModel(mergeTypes[k], modelId)
    ELSE supportsModel(workerType, modelId)
supports(modelId) ==
    IF workerType = "merge"
    THEN \/ \E k \in 1..Len(mergeTypes) : supportsModel(mergeTypes[k], modelId)
         \/ /\ includesSlash(modelId)
            /\ isMember(specifiedTypeOf(modelId))
            /\ supportsModel(specifiedTypeOf(modelId), actualModelOf(modelId))
    ELSE IF includesSlash(modelId)
         THEN /\ specifiedTypeOf(modelId) = workerType
              /\ supportsModel(workerType, actualModelOf(modelId))
         ELSE supportsModel(workerType, modelId)

\* The members that support modelKey, in mergeTypes order.
supportingMembers(modelKey) ==
    LET ok(t) == supportsModel(t, modelKey) IN SelectSeq(mergeTypes, ok)

\* Worker._getAdapterType(modelKey)
getAdapterType(modelKey) ==
    IF workerType = "merge"
    THEN IF includesSlash(modelKey)
         THEN IF isMember(specifiedTypeOf(modelKey))
              THEN specifiedTypeOf(modelKey)
              ELSE mergeTypes[1]
         ELSE IF supportingMembers(modelKey) # <<>>
              THEN supportingMembers(modelKey)[1]
              ELSE mergeTypes[1]
    ELSE workerType

\* Worker._getCandidateTypes(modelKey): list of {type, modelId}
getCandidateTypesUnqualified(modelKey) ==
    LET key == IF includesSlash(modelKey) THEN actualModelOf(modelKey) ELSE modelKey
        sel == supportingMembers(key)
    IN  [k \in 1..Len(sel) |-> [type |-> sel[k], modelId |-> key]]
getCandidateTypes(modelKey) ==
    IF includesSlash(modelKey)
    THEN IF /\ isMember(specifiedTypeOf(modelKey))
            /\ supportsModel(specifiedTypeOf(modelKey), actualModelOf(modelKey))
         THEN <<[type |-> specifiedTypeOf(modelKey),
                 modelId |-> actualModelOf(modelKey)]>>
         ELSE <<>>
    ELSE LET sel == supportingMembers(modelKey)
         IN  [k \in 1..Len(sel) |-> [type |-> sel[k], modelId |-> modelKey]]

\* failoverConfig.enabled !== false
failoverEnabled == failoverConfig.enabled

\* const maxRetries = failoverConfig.maxRetries || 2
workerMaxRetries ==
    IF failoverConfig.maxRetries = 0 THEN 2 ELSE failoverConfig.maxRetries

\* maxAttempts of _generateWithFailover
workerMaxAttempts(n) ==
    IF workerMaxRetries = 0 THEN n ELSE Min(workerMaxRetries + 1, n)

\* generate takes the failover path
usesFailoverIgnoringFlag == workerType = "merge"
usesFailover == workerType = "merge" /\ failoverEnabled

\* Error results of the Worker
NotSupported(modelId) ==
    Failure(<<"Worker does not support model: ">> \o modelId)
AdapterMissing(type) == Failure(<<"adapter does not exist: ", type>>)
AllAdaptersFailed(err) ==
    Failure(<<"all adapters supporting the model are unavailable: ">> \o err)

\* ------------------------------------------------------------------------
\* Worker: generate
\* ------------------------------------------------------------------------
MaxTasks == 2
TaskIds == 1..MaxTasks
AdapterErrors == {ErrTimeout, ErrImageForbidden}

IdleTask == [pc |-> "idle", key |-> <<>>, images |-> 0, cands |-> <<>>, idx |-> 0,
             pending |-> NoResult, pthrown |-> FALSE,
             result |-> NoResult, thrown |-> FALSE, calls |-> <<>>]

CfgIdle ==
    /\ registry = [t \in AdapterTypes |-> "none"]
    /\ adapters = AdapterTypes
    /\ workerType = "merge"
    /\ mergeTypes = <<>>
    /\ failoverConfig = [enabled |-> TRUE, maxRetries |-> 2]

WorkerIdle ==
    /\ busyCount = 0
    /\ tasks = [t \in TaskIds |-> IdleTask]

\* Image policies the adapters declare for model m.
DeclaredPolicy ==
    [t \in AdapterTypes |->
        CASE t = "a" -> "optional"
          [] t = "b" -> "forbidden"
          [] t = "c" -> "required"
          [] OTHER   -> "forbidden"]

MergeConfigs ==
    {<<"a", "b">>, <<"b", "a">>, <<"a", "b", "c">>,
     <<"a", "b", "c", "d">>, <<"d", "c", "b", "a">>}

\* new Worker(globalConfig, workerConfig)
WorkerInit ==
    /\ registry \in {r \in [AdapterTypes -> Policies \cup {"none"}] :
                        \A t \in AdapterTypes : r[t] \in {"none", DeclaredPolicy[t]}}
    /\ adapters \in {AdapterTypes, AdapterTypes \ {"a"}}
    /\ \/ workerType = "merge" /\ mergeTypes \in MergeConfigs
       \/ workerType \in {"a", "b"} /\ mergeTypes = <<>>
    /\ failoverConfig \in
         {[enabled |-> TRUE, maxRetries |-> r] : r \in 0..MaxRetriesBound}
            \cup {[enabled |-> FALSE, maxRetries |-> 2]}
    /\ busyCount = 0
    /\ tasks = [t \in TaskIds |-> IdleTask]

\* The Pool dispatches a task to a Worker only when its busy counter is zero
\* (spec 4.5; the Pool is not part of the sources).
PoolMayDispatch == busyCount = 0

\* _executeAdapter(ctx, type, modelId, ...) up to `await adapter.generate`:
\* the task record after the call, and whether the adapter was invoked.
executeAdapter(task, type, modelId) ==
    IF ~getAdapter(type)
    THEN [task EXCEPT !.pc = "resume", !.pending = AdapterMissing(type),
                      !.pthrown = FALSE]
    ELSE [task EXCEPT !.pc = "adapter",
                      !.calls = Append(@, [type |-> type, modelId |-> modelId])]

Returned(task, result, thrown) ==
    [task EXCEPT !.pc = "done", !.result = result, !.thrown = thrown,
                 !.pending = NoResult, !.pthrown = FALSE]

\* `this.busyCount++` is reached only past the missing-adapter return
busyAfterAlways(task) == busyCount + 1
busyAfter(task) == IF task.pc = "adapter" THEN busyCount + 1 ELSE busyCount

\* `if (!this.supports(modelId))` of generate
rejectsModelNever(modelId) == FALSE
rejectsModel(modelId) == ~supports(modelId)

\* generate(ctx, prompt, paths, modelId, meta), synchronous part
Generate(t, modelId, images) ==
    /\ tasks[t].pc = "idle"
    /\ \A u \in TaskIds : u < t => tasks[u].pc # "idle"
    /\ PoolMayDispatch
    /\ LET task == [tasks[t] EXCEPT !.key = modelId, !.images = images]
           cands == getCandidateTypes(modelId)
           next ==
              IF usesFailover
              THEN IF Len(cands) = 0
                   THEN Returned(task, NotSupported(modelId), FALSE)
                   ELSE executeAdapter([task EXCEPT !.cands = cands],
                                       cands[1].type, cands[1].modelId)
              ELSE IF rejectsModel(modelId)
                   THEN Returned(task, NotSupported(modelId), FALSE)
                   ELSE executeAdapter(task, getAdapterType(modelId),
                            IF includesSlash(modelId) THEN actualModelOf(modelId)
                                                      ELSE modelId)
       IN  /\ tasks' = [tasks EXCEPT ![t] = next]
           /\ busyCount' = busyAfter(next)
    /\ UNCHANGED <<vars_cfg, vars_fo, vars_init, vars_q, vars_srv, vars_sel, vars_page>>

\* adapter.generate settles; the finally block of _executeAdapter runs.
AdapterSettles(t, result, thrown) ==
    /\ tasks[t].pc = "adapter"
    /\ busyCount' = busyCount - 1
    /\ tasks' = [tasks EXCEPT ![t] = [@ EXCEPT !.pc = "resume", !.pending = result,
                                               !.pthrown = thrown]]
    /\ UNCHANGED <<vars_cfg, vars_fo, vars_init, vars_q, vars_srv, vars_sel, vars_page>>

\* The caller of _executeAdapter resumes: the loop of _generateWithFailover,
\* or generate itself returning the adapter's result.
Resume(t) ==
    /\ tasks[t].pc = "resume"
    /\ LET task == tasks[t]
           next ==
              IF task.pthrown \/ IsSuccess(task.pending) \/ ~usesFailover
              THEN Returned(task, task.pending, task.pthrown)
              ELSE IF task.idx + 1 < workerMaxAttempts(Len(task.cands))
                   THEN executeAdapter([task EXCEPT !.idx = @ + 1,
                                                    !.pending = NoResult],
                                       task.cands[task.idx + 2].type,
                                       task.cands[task.idx + 2].modelId)
                   ELSE Returned([task EXCEPT !.idx = @ + 1],
                                 AllAdaptersFailed(task.pending.error), FALSE)
       IN  /\ tasks' = [tasks EXCEPT ![t] = next]
           /\ busyCount' = busyAfter(next)
    /\ UNCHANGED <<vars_cfg, vars_fo, vars_init, vars_q, vars_srv, vars_sel, vars_page>>

\* ------------------------------------------------------------------------
\* Worker: query methods
\* ------------------------------------------------------------------------
\* The priority of getImagePolicy over the collected policies (lines 431-435)
combinePoliciesStrict(policies) ==
    IF "required" \in policies THEN "required"
    ELSE IF "optional" \in policies THEN "optional"
    ELSE IF "forbidden" \in policies THEN "forbidden"
    ELSE "optional"
combinePolicies(policies) ==
    IF "optional" \in policies THEN "optional"
    ELSE IF "required" \in policies THEN "required"
    ELSE IF "forbidden" \in policies THEN "forbidden"
    ELSE "optional"

\* Worker.getImagePolicy(modelKey)
getImagePolicy(modelKey) ==
    IF workerType = "merge"
    THEN IF includesSlash(modelKey) /\ isMember(specifiedTypeOf(modelKey))
         THEN registryImagePolicy(specifiedTypeOf(modelKey), actualModelOf(modelKey))
         ELSE combinePolicies(
                {registryImagePolicy(mergeTypes[k], modelKey) :
                    k \in {j \in 1..Len(mergeTypes) :
                              supportsModel(mergeTypes[j], modelKey)}})
    ELSE registryImagePolicy(workerType, modelKey)

NoAnswer == [op |-> "none", key |-> <<>>, result |-> "none", models |-> <<>>]

QueryIdle == answer = NoAnswer

\* A Worker over any registry content for model m.
QueryInit ==
    /\ registry \in [AdapterTypes -> Policies \cup {"none"}]
    /\ adapters = AdapterTypes
    /\ \/ workerType = "merge" /\ mergeTypes \in MergeConfigs
       \/ workerType \in {"a", "b"} /\ mergeTypes = <<>>
    /\ failoverConfig = [enabled |-> TRUE, maxRetries |-> 2]
    /\ answer = NoAnswer

QueryImagePolicy(modelKey) ==
    /\ answer' = [op |-> "getImagePolicy", key |-> modelKey,
                  result |-> getImagePolicy(modelKey), models |-> <<>>]
    /\ UNCHANGED <<vars_cfg, vars_w, vars_fo, vars_init, vars_srv, vars_sel, vars_page>>

\* registry.getModelsForAdapter(type).data, as the list of ids: the ids of
\* the models the adapter supports (<<>> when the result is undefined).
getModelsForAdapter(type) ==
    IF type \in AdapterTypes /\ registry[type] # "none" THEN <<ModelM>> ELSE <<>>

\* The entries getModels pushes for the ids an adapter lists.
bareEntries(ids) ==
    [k \in 1..Len(ids) |-> [id |-> ids[k], owned_by |-> "internal_server"]]
qualifiedEntries(type, ids) ==
    [k \in 1..Len(ids) |-> [id |-> <<type>> \o ids[k], owned_by |-> type]]

\* First loop of the merge branch (lines 361-371): members from position k
\* on, skipping the ids in seenIds.
RECURSIVE mergedBare(_, _)
mergedBare(k, seenIds) ==
    IF k > Len(mergeTypes) THEN <<>>
    ELSE LET ids == getModelsForAdapter(mergeTypes[k])
             fresh(x) == x \notin seenIds
             new == SelectSeq(ids, fresh)
         IN  bareEntries(new) \o mergedBare(k + 1, seenIds \cup Range(new))

\* Second loop of the merge branch (lines 373-384).
RECURSIVE mergedQualified(_)
mergedQualified(k) ==
    IF k > Len(mergeTypes) THEN <<>>
    ELSE qualifiedEntries(mergeTypes[k], getModelsForAdapter(mergeTypes[k]))
            \o mergedQualified(k + 1)

\* Worker.getModels()
getModels ==
    IF workerType = "merge"
    THEN mergedBare(1, {}) \o mergedQualified(1)
    ELSE bareEntries(getModelsForAdapter(workerType))
            \o qualifiedEntries(workerType, getModelsForAdapter(workerType))

QueryGetModels ==
    /\ answer' = [op |-> "getModels", key |-> <<>>, result |-> "none",
                  models |-> getModels]
    /\ UNCHANGED <<vars_cfg, vars_w, vars_fo, vars_init, vars_srv, vars_sel, vars_page>>


\* ------------------------------------------------------------------------
\* Worker: init
\* ------------------------------------------------------------------------
MaxInitCalls == 2
InitCallers == 1..MaxInitCalls

IdleInitCall == [pc |-> "idle", shared |-> FALSE, nav |-> 0, tried |-> <<>>,
                 loaded |-> FALSE, ran |-> FALSE]

\* init is not in use (specifications of other components).
InitIdle ==
    /\ initialized = FALSE
    /\ initCalls = [c \in InitCallers |-> IdleInitCall]
    /\ browsersLaunched = 0
    /\ pagesCreated = 0
    /\ listenersInstalled = 0
    /\ loginMode = FALSE
    /\ hasHandlers = FALSE
    /\ urlTypes = AdapterTypes

\* new Worker(...) before any init call
InitWorkerInit ==
    /\ registry = DeclaredPolicy
    /\ adapters = AdapterTypes
    /\ \/ workerType = "merge" /\ mergeTypes \in MergeConfigs
       \/ workerType \in {"a", "b"} /\ mergeTypes = <<>>
    /\ failoverConfig = [enabled |-> TRUE, maxRetries |-> 2]
    /\ initialized = FALSE
    /\ initCalls = [c \in InitCallers |-> IdleInitCall]
    /\ browsersLaunched = 0
    /\ pagesCreated = 0
    /\ listenersInstalled = 0
    /\ loginMode \in BOOLEAN
    /\ hasHandlers \in BOOLEAN
    /\ urlTypes \in {AdapterTypes, AdapterTypes \ {"a"}, {}}

\* registry.getNavigationHandlers(type), in registration order
RegisteredHandlers ==
    [t \in AdapterTypes |->
        CASE t = "a" -> <<"a1", "a2">>
          [] t = "b" -> <<"b1">>
          [] t = "c" -> <<>>
          [] OTHER   -> <<"d1">>]
getNavigationHandlers(type) == IF hasHandlers THEN RegisteredHandlers[type] ELSE <<>>

\* The handlers init collects: the members' handlers in mergeTypes order
RECURSIVE collectFrom(_)
collectFrom(types) ==
    IF types = <<>> THEN <<>>
    ELSE getNavigationHandlers(types[1]) \o collectFrom(Tail(types))
collectedHandlers ==
    collectFrom(IF workerType = "merge" THEN mergeTypes ELSE <<workerType>>)

\* navigationHandler of init is not null
navigationHandler == ~loginMode /\ Len(collectedHandlers) > 0

\* _navigateToTarget of a merge Worker: the next member at or after position
\* `from` that has a target URL (`if (!url) continue`), 0 when there is none.
nextMemberAny(from) == IF from <= Len(mergeTypes) THEN from ELSE 0
nextMember(from) ==
    LET withUrl == {k \in from..Len(mergeTypes) : mergeTypes[k] \in urlTypes}
    IN  IF withUrl = {} THEN 0
        ELSE CHOOSE k \in withUrl : \A j \in withUrl : k <= j

\* The init call record once _navigateToTarget has made its first
\* tryGotoWithCheck call, or has found nothing to try (pc "navigated").
navigateToTarget(call) ==
    IF workerType = "merge"
    THEN IF nextMember(1) = 0
         THEN [call EXCEPT !.pc = "navigated"]
         ELSE [call EXCEPT !.pc = "navigating", !.nav = nextMember(1),
                           !.tried = <<mergeTypes[nextMember(1)]>>]
    ELSE [call EXCEPT !.pc = "navigating", !.nav = 1, !.tried = <<workerType>>]

\* init(sharedBrowser) up to `await sharedBrowser.newPage()` or
\* `await initBrowserBase(...)`
InitCall(c, shared) ==
    /\ initCalls[c].pc = "idle"
    /\ \A u \in InitCallers : u < c => initCalls[u].pc # "idle"
    /\ initCalls' = [initCalls EXCEPT ![c] =
            IF initialized THEN [@ EXCEPT !.pc = "done", !.shared = shared]
            ELSE [@ EXCEPT !.pc = "creating", !.shared = shared]]
    /\ UNCHANGED <<initialized, browsersLaunched, pagesCreated, listenersInstalled,
                   loginMode, hasHandlers, urlTypes>>
    /\ UNCHANGED <<vars_cfg, vars_w, vars_fo, vars_q, vars_srv, vars_sel, vars_page>>

\* The page exists: this.browser / this.page are assigned; _initNewBrowser
\* installs the listener before navigating, _initWithSharedBrowser after.
\* When no member has a target URL nothing is awaited and init runs on to
\* `this.initialized = true`.
InitPageCreated(c) ==
    /\ initCalls[c].pc = "creating"
    /\ pagesCreated' = pagesCreated + 1
    /\ browsersLaunched' = IF initCalls[c].shared THEN browsersLaunched
                           ELSE browsersLaunched + 1
    /\ LET call == navigateToTarget([initCalls[c] EXCEPT !.ran = TRUE])
           over == call.pc = "navigated"
       IN  /\ listenersInstalled' =
                    IF navigationHandler /\ (~initCalls[c].shared \/ over)
                    THEN listenersInstalled + 1
                    ELSE listenersInstalled
           /\ initCalls' = [initCalls EXCEPT ![c] =
                    IF over THEN [call EXCEPT !.pc = "done"] ELSE call]
           /\ initialized' = (initialized \/ over)
    /\ UNCHANGED <<loginMode, hasHandlers, urlTypes>>
    /\ UNCHANGED <<vars_cfg, vars_w, vars_fo, vars_q, vars_srv, vars_sel, vars_page>>

\* One tryGotoWithCheck of _navigateToTarget returns (ok: without error).
\* A merge Worker tries its member URLs in order until one succeeds; when
\* navigation is over, init finishes and sets this.initialized.
InitGotoReturns(c, ok) ==
    /\ initCalls[c].pc = "navigating"
    /\ LET next == IF workerType = "merge" /\ ~ok
                   THEN nextMember(initCalls[c].nav + 1) ELSE 0
       IN  IF next # 0
           THEN /\ initCalls' = [initCalls EXCEPT ![c] =
                        [@ EXCEPT !.nav = next,
                                  !.tried = Append(@, mergeTypes[next])]]
                /\ UNCHANGED <<initialized, listenersInstalled>>
           ELSE /\ initCalls' = [initCalls EXCEPT ![c] =
                        [@ EXCEPT !.pc = "done", !.loaded = ok]]
                /\ listenersInstalled' = IF initCalls[c].shared /\ navigationHandler
                                         THEN listenersInstalled + 1
                                         ELSE listenersInstalled
                /\ initialized' = TRUE
    /\ UNCHANGED <<browsersLaunched, pagesCreated, loginMode, hasHandlers, urlTypes>>
    /\ UNCHANGED <<vars_cfg, vars_w, vars_fo, vars_q, vars_srv, vars_sel, vars_page>>

InitInit == InitWorkerInit /\ WorkerIdle /\ FoIdle /\ QueryIdle /\ ServerIdle /\ SelIdle /\ PageIdle
NextInit ==
    \/ \E c \in InitCallers, shared \in BOOLEAN : InitCall(c, shared)
    \/ \E c \in InitCallers : InitPageCreated(c)
    \/ \E c \in InitCallers, ok \in BOOLEAN : InitGotoReturns(c, ok)
SpecInit == InitInit /\ [][NextInit]_vars

\* The query methods of a Worker, called with every model key.
InitQuery == QueryInit /\ WorkerIdle /\ FoIdle /\ InitIdle /\ ServerIdle /\ SelIdle /\ PageIdle
NextQuery ==
    \/ \E k \in ModelKeys : QueryImagePolicy(k)
    \/ QueryGetModels
SpecQuery == InitQuery /\ [][NextQuery]_vars

\* The steps of generate calls made by the callers in T, with model keys
\* from K and image counts from I.
WorkerNext(T, K, I) ==
    \/ \E t \in T, k \in K, n \in I : Generate(t, k, n)
    \/ \E t \in T : AdapterSettles(t, Success(1), FALSE)
    \/ \E t \in T, e \in AdapterErrors : AdapterSettles(t, Failure(e), FALSE)
    \/ \E t \in T, m \in ThrowMessages : AdapterSettles(t, Failure(m), TRUE)
    \/ \E t \in T : Resume(t)

Init == WorkerInit /\ FoIdle /\ InitIdle /\ QueryIdle /\ ServerIdle /\ SelIdle /\ PageIdle

\* One generate call on a Worker, over every model key and image count.
Next == WorkerNext({1}, ModelKeys, 0..1)
Spec == Init /\ [][Next]_vars

\* Up to MaxTasks generate calls dispatched by the Pool to one Worker.
PoolKeys == {ModelM, <<"b", "m">>, <<"x">>}
NextPool == WorkerNext(TaskIds, PoolKeys, {0})
SpecPool == Init /\ [][NextPool]_vars

\* ------------------------------------------------------------------------
\* Properties of Worker.generate
\* ------------------------------------------------------------------------
\* The adapter types a call invoked, in call order.
CalledTypes(task) == [k \in 1..Len(task.calls) |-> task.calls[k].type]

\* The call returned an error result (it neither succeeded nor threw).
ReturnedError(task) ==
    task.pc = "done" /\ ~task.thrown /\ ~IsSuccess(task.result)

\* C4: for a merge Worker with failover enabled and maxRetries = 0, a
\* generate call in which every member fails invokes the adapter of every
\* member that supports the model exactly once, in mergeTypes order.
C4_ZeroMeansTryAll ==
    \A t \in TaskIds :
        (/\ workerType = "merge" /\ failoverEnabled
         /\ failoverConfig.maxRetries = 0
         /\ ~includesSlash(tasks[t].key)
         /\ ReturnedError(tasks[t]))
        => CalledTypes(tasks[t]) = supportingMembers(tasks[t].key)

\* A generate call is between two attempts of the failover loop: an attempt
\* returned an error and the loop will invoke the next candidate.
BetweenAttempts(task) ==
    /\ task.pc = "resume"
    /\ usesFailover
    /\ ~task.pthrown
    /\ ~IsSuccess(task.pending)
    /\ task.idx + 1 < workerMaxAttempts(Len(task.cands))

\* The generate calls in flight.  A call is counted while its adapter runs
\* and between two attempts of the failover loop; the instants between the
\* last adapter's completion and the return of generate are not counted.
InFlight == {t \in TaskIds : tasks[t].pc = "adapter" \/ BetweenAttempts(tasks[t])}

\* C5: at every observable state the busy counter equals the number of
\* generate operations in flight on the Worker; it stays >= 1 from the start
\* of a generate call until it returns, including between the adapter
\* attempts of a merge Worker's failover loop.
C5_BusyEqualsInFlight ==
    /\ busyCount = Cardinality(InFlight)
    /\ InFlight # {} => busyCount >= 1

\* C6: for every Worker and every interleaving of requests the busy counter
\* is >= 0 and <= 1: no second generate call runs while another is in flight.
C6_BusyAtMostOne ==
    /\ busyCount >= 0
    /\ busyCount <= 1
    /\ Cardinality({t \in TaskIds : tasks[t].pc = "adapter"}) <= 1

C9_NoForbiddenMember ==
    \A t \in TaskIds :
        LET task == tasks[t]
        IN  (/\ workerType = "merge"
             /\ task.images >= 1
             /\ ~includesSlash(task.key)
             /\ \E k \in 1..Len(mergeTypes) :
                   /\ supportsModel(mergeTypes[k], task.key)
                   /\ registryImagePolicy(mergeTypes[k], task.key) # "forbidden")
            => \A k \in 1..Len(task.calls) :
                  registryImagePolicy(task.calls[k].type, task.key) # "forbidden"

\* ------------------------------------------------------------------------
\* Properties of Worker.init and of the query methods
\* ------------------------------------------------------------------------
\* C7: Worker.init is idempotent: after any sequence of init calls, including
\* a second call issued while the first is still awaiting browser launch or
\* navigation, the browser/page is created at most once and the navigation
\* listener is installed at most once.
C7_InitOnce ==
    /\ pagesCreated <= 1
    /\ browsersLaunched <= 1
    /\ listenersInstalled <= 1

\* The policies the supporting members of a merge Worker report for a key.
MemberPolicies(modelKey) ==
    {registry[mergeTypes[k]] :
        k \in {j \in 1..Len(mergeTypes) :
                  modelKey = ModelM /\ registry[mergeTypes[j]] # "none"}}

\* C10 (as stated): for a merge Worker and an unqualified key, imagePolicy is
\* optional if any supporting member reports optional, else required if any
\* reports required, else forbidden (also when no member supports the model).
C10_Original ==
    (answer.op = "getImagePolicy" /\ workerType = "merge" /\ Len(answer.key) = 1)
    => answer.result =
          IF "optional" \in MemberPolicies(answer.key) THEN "optional"
          ELSE IF "required" \in MemberPolicies(answer.key) THEN "required"
          ELSE "forbidden"

\* C10 (amended): ... else forbidden if some member supports the model; when
\* no member supports the model the result is optional.
C10_ImagePolicy ==
    (answer.op = "getImagePolicy" /\ workerType = "merge" /\ Len(answer.key) = 1)
    => answer.result =
          IF "optional" \in MemberPolicies(answer.key) THEN "optional"
          ELSE IF "required" \in MemberPolicies(answer.key) THEN "required"
          ELSE IF MemberPolicies(answer.key) # {} THEN "forbidden"
          ELSE "optional"

\* Members reporting required and forbidden, none optional: required.
C10_Witness ==
    /\ answer.op = "getImagePolicy"
    /\ workerType = "merge"
    /\ answer.key = ModelM
    /\ MemberPolicies(ModelM) = {"required", "forbidden"}
    /\ answer.result = "required"

FoNext ==
    \/ \E cs \in InjSeqs(CandidateIds, MaxCandidates) : Execute(cs)
    \/ \E e \in ErrorStrings : AttemptReturns(Failure(e))
    \/ AttemptReturns(Success(candidates[i + 1]))
    \/ \E m \in ThrowMessages : AttemptThrows(m)

InitFailover == FoInit /\ CfgIdle /\ WorkerIdle /\ InitIdle /\ QueryIdle
                /\ ServerIdle /\ SelIdle /\ PageIdle
SpecFailover == InitFailover /\ [][FoNext]_vars

\* ------------------------------------------------------------------------
\* Properties of the failover executor
\* ------------------------------------------------------------------------
\* The number of attempts section 4.7 of the specification prescribes.
EffectiveAttempts(mr, n) == IF mr > 0 THEN Min(mr + 1, n) ELSE n

NoAttemptSucceeded == \A k \in 1..Len(outcomes) : outcomes[k].kind # "ok"

\* The outcome part of C1: execute resolved to the result of the first
\* successful attempt, or to FAILOVER_EXHAUSTED wrapping the last error.
FirstSuccessOrExhausted ==
    /\ \A k \in 1..Len(outcomes) :
          outcomes[k].kind = "ok" => k = Len(outcomes) /\ Len(attempts) = k
    /\ fo_pc = "done" =>
          IF NoAttemptSucceeded
          THEN /\ fo_result.code = "FAILOVER_EXHAUSTED"
               /\ ~IsSuccess(fo_result)
               /\ Len(outcomes) > 0
               /\ Contains(fo_result.error, outcomes[Len(outcomes)].error)
          ELSE fo_result = Success(attempts[Len(attempts)])

\* C1 (as stated, for every candidate list): execute returns the result of
\* the first successful attempt and attempts nothing after it; if no
\* candidate succeeded it returns an error with code FAILOVER_EXHAUSTED whose
\* message contains the error of the last attempt.
C1_Original == FirstSuccessOrExhausted

\* C1 (amended): the same, for every non-empty candidate list; for the empty
\* list execute returns an error without a code and makes no attempt.
C1_FirstSuccessOrExhausted ==
    IF fo_pc = "done" /\ Len(candidates) = 0
    THEN ~IsSuccess(fo_result) /\ fo_result.code = "" /\ attempts = <<>>
    ELSE FirstSuccessOrExhausted

\* A success on the second candidate while a third was never attempted.
C1_Witness ==
    /\ fo_pc = "done"
    /\ Len(candidates) >= 3
    /\ Len(attempts) = 2
    /\ outcomes[1].kind = "error"
    /\ outcomes[2].kind = "ok"
    /\ fo_result = Success(candidates[2])

\* C2: when every attempt fails the attempt function is invoked exactly
\* min(maxRetries+1, N) times if maxRetries > 0 and N times if
\* maxRetries = 0, on the first that-many candidates in list order, each
\* candidate at most once.
C2_AttemptCount ==
    (fo_pc = "done" /\ NoAttemptSucceeded) =>
        LET n == EffectiveAttempts(maxRetries, Len(candidates))
        IN  /\ Len(attempts) = n
            /\ attempts = SubSeq(candidates, 1, n)
            /\ \A j, k \in 1..Len(attempts) : attempts[j] = attempts[k] => j = k

\* Every attempt failed, maxRetries > 0, and the executor stopped after
\* maxRetries + 1 attempts with candidates left over.
C2_Witness ==
    /\ fo_pc = "done"
    /\ NoAttemptSucceeded
    /\ maxRetries > 0
    /\ Len(attempts) = maxRetries + 1
    /\ Len(attempts) < Len(candidates)

\* Failed attempts that count against the budget in the reading of C3:
\* those whose error is retryable (a thrown error is counted too).
CountedFailures ==
    Cardinality({k \in 1..Len(outcomes) :
        \/ outcomes[k].kind = "throw"
        \/ outcomes[k].kind = "error" /\ normalizeErrorRetryable(outcomes[k].error)})

INVALID_REQUEST == "invalid_request_error"
SERVER_ERROR == "server_error"
RATE_LIMIT == "rate_limit_error"

ERROR_CODES == {"UNAUTHORIZED", "BROWSER_NOT_INITIALIZED", "SERVER_BUSY",
                "NO_MESSAGES", "NO_USER_MESSAGES", "TOO_MANY_IMAGES",
                "INVALID_MODEL", "IMAGE_REQUIRED", "IMAGE_FORBIDDEN",
                "RECAPTCHA", "INTERNAL_ERROR", "GENERATION_FAILED"}

Detail(m, s, t) == [message |-> m, status |-> s, type |-> t]

ERROR_DETAILS == [c \in ERROR_CODES |->
    CASE c = "UNAUTHORIZED" ->
            Detail("unauthorized (token invalid or missing)", 401, INVALID_REQUEST)
      [] c = "BROWSER_NOT_INITIALIZED" ->
            Detail("browser not initialized", 503, SERVER_ERROR)
      [] c = "SERVER_BUSY" ->
            Detail("server busy (queue full)", 429, RATE_LIMIT)
      [] c = "NO_MESSAGES" ->
            Detail("request lacks messages", 400, INVALID_REQUEST)
      [] c = "NO_USER_MESSAGES" ->
            Detail("messages lack a role=user message", 400, INVALID_REQUEST)
      [] c = "TOO_MANY_IMAGES" ->
            Detail("too many images", 400, INVALID_REQUEST)
      [] c = "INVALID_MODEL" ->
            Detail("model invalid / not supported", 400, INVALID_REQUEST)
      [] c = "IMAGE_REQUIRED" ->
            Detail("model requires a reference image", 400, INVALID_REQUEST)
      [] c = "IMAGE_FORBIDDEN" ->
            Detail("model does not accept images", 400, INVALID_REQUEST)
      [] c = "RECAPTCHA" ->
            Detail("human verification triggered (reCAPTCHA)", 403, SERVER_ERROR)
      [] c = "INTERNAL_ERROR" ->
            Detail("internal server error", 500, SERVER_ERROR)
      [] c = "GENERATION_FAILED" ->
            Detail("image generation failed", 502, SERVER_ERROR)]

\* The fallback of getErrorDetails carries no type.
UnknownDetails == [message |-> "unknown error", status |-> 500]

getErrorDetailsNoTable(code) == UnknownDetails
getErrorDetails(code) ==
    IF code \in DOMAIN ERROR_DETAILS THEN ERROR_DETAILS[code] ELSE UnknownDetails

\* ------------------------------------------------------------------------
\* Response transport (src/src/server/http/respond.js)
\* An absent option is the falsy value of its type: "" for code and message,
\* 0 for status.
\* ------------------------------------------------------------------------
NoError == [message |-> "", type |-> "", code |-> ""]
NoPayload == [object |-> "none", content |-> "", finish |-> "", error |-> NoError]

buildChatCompletion(content) ==
    [object |-> "chat.completion", content |-> content, finish |-> "stop",
     error |-> NoError]
buildChatCompletionChunk(content, finishReason) ==
    [object |-> "chat.completion.chunk", content |-> content,
     finish |-> finishReason, error |-> NoError]

\* What the engine sends for a successful generation.
Completion == buildChatCompletion("text")
ContentChunk == buildChatCompletionChunk("text", "null")
TerminalChunk == buildChatCompletionChunk("", "stop")

\* http.ServerResponse: writeHead throws once the headers are sent, write
\* sends implicit headers (status 200) when none were sent, end closes the
\* writable side.
writeHead(r, status, type) ==
    [r EXCEPT !.headersSent = TRUE, !.statusCode = status, !.contentType = type]
write(r, frame, payload) ==
    [r EXCEPT !.headersSent = TRUE,
              !.statusCode = IF r.headersSent THEN @ ELSE 200,
              !.chunks = Append(@, [frame |-> frame, payload |-> payload])]
end(r) == [r EXCEPT !.writableEnded = TRUE]

\* sendJson throws at writeHead when the headers were already sent.
sendJsonThrows(r) == ~r.writableEnded /\ r.headersSent

sendJson(r, status, payload) ==
    IF r.writableEnded \/ sendJsonThrows(r) THEN r
    ELSE end(write(writeHead(r, status, "application/json"), "body", payload))

sendSse(r, payload) ==
    IF r.writableEnded THEN r ELSE write(r, "data", payload)

sendSseDoneNoEnd(r) ==
    IF r.writableEnded THEN r ELSE write(r, "done", NoPayload)
sendSseDone(r) ==
    IF r.writableEnded THEN r ELSE end(write(r, "done", NoPayload))

sendHeartbeatUnguarded(r, mode) ==
    IF mode = "comment" THEN write(r, "comment", NoPayload)
    ELSE write(r, "data", buildChatCompletionChunk("", "null"))
sendHeartbeat(r, mode) ==
    IF r.writableEnded THEN r
    ELSE IF mode = "comment" THEN write(r, "comment", NoPayload)
    ELSE write(r, "data", buildChatCompletionChunk("", "null"))

\* The payload and the status sendApiError computes from its options.
apiErrorPayload(code, message) ==
    LET details == getErrorDetails(code)
        errorMessage == IF message # "" THEN message
                        ELSE IF code # "" THEN details.message
                        ELSE "unknown error"
        errorType == IF code # "" /\ "type" \in DOMAIN details
                     THEN details.type ELSE "server_error"
    IN  [object |-> "error", content |-> "", finish |-> "",
         error |-> [message |-> errorMessage, type |-> errorType,
                    code |-> IF code # "" THEN code ELSE "INTERNAL_ERROR"]]
apiErrorStatus(code, status) ==
    IF status # 0 THEN status
    ELSE IF code # "" THEN getErrorDetails(code).status
    ELSE 500

sendApiErrorNoDone(r, code, message, status, isStreaming) ==
    IF isStreaming THEN sendSse(r, apiErrorPayload(code, message))
    ELSE sendJson(r, apiErrorStatus(code, status), apiErrorPayload(code, message))
sendApiError(r, code, message, status, isStreaming) ==
    IF isStreaming THEN sendSseDone(sendSse(r, apiErrorPayload(code, message)))
    ELSE sendJson(r, apiErrorStatus(code, status), apiErrorPayload(code, message))

\* The calls made on one response.  Writes that do not end the response are
\* made while fewer than MaxChunks chunks were written.
MaxChunks == 2
CustomStatus == 418
ApiErrorCodes == ERROR_CODES \cup {"", "NOT_A_CODE"}
ApiErrorMessages == {"", "custom message"}
ApiErrorStatuses == {0, CustomStatus}
HeartbeatModes == {"comment", "content"}

Called(fn, r) == [fn |-> fn, wrote |-> r # res, code |-> "", message |-> "",
                  status |-> 0, isStreaming |-> FALSE]

\* The handler of a streaming request opens the event stream.
OpenStream ==
    /\ ~res.writableEnded /\ ~res.headersSent
    /\ res' = writeHead(res, 200, "text/event-stream")
    /\ lastCall' = Called("writeHead", res')
    /\ UNCHANGED <<vars_fo, vars_cfg, vars_w, vars_init, vars_q, vars_adm, vars_load, vars_sel, vars_page>>

CallSendJson ==
    /\ res' = sendJson(res, 200, Completion)
    /\ lastCall' = Called("sendJson", res')
    /\ UNCHANGED <<vars_fo, vars_cfg, vars_w, vars_init, vars_q, vars_adm, vars_load, vars_sel, vars_page>>

CallSendSse(payload) ==
    /\ res.writableEnded \/ Len(res.chunks) < MaxChunks
    /\ res' = sendSse(res, payload)
    /\ lastCall' = Called("sendSse", res')
    /\ UNCHANGED <<vars_fo, vars_cfg, vars_w, vars_init, vars_q, vars_adm, vars_load, vars_sel, vars_page>>

CallSendSseDone ==
    /\ res' = sendSseDone(res)
    /\ lastCall' = Called("sendSseDone", res')
    /\ UNCHANGED <<vars_fo, vars_cfg, vars_w, vars_init, vars_q, vars_adm, vars_load, vars_sel, vars_page>>

CallSendHeartbeat(mode) ==
    /\ res.writableEnded \/ Len(res.chunks) < MaxChunks
    /\ res' = sendHeartbeat(res, mode)
    /\ lastCall' = Called("sendHeartbeat", res')
    /\ UNCHANGED <<vars_fo, vars_cfg, vars_w, vars_init, vars_q, vars_adm, vars_load, vars_sel, vars_page>>

CallSendApiError(code, message, status, isStreaming) ==
    /\ res' = sendApiError(res, code, message, status, isStreaming)
    /\ lastCall' = IF res' = res THEN Called("sendApiError", res')
                   ELSE [fn |-> "sendApiError", wrote |-> TRUE, code |-> code,
                         message |-> message, status |-> status,
                         isStreaming |-> isStreaming]
    /\ UNCHANGED <<vars_fo, vars_cfg, vars_w, vars_init, vars_q, vars_adm, vars_load, vars_sel, vars_page>>

RespondInit ==
    /\ res = FreshRes
    /\ lastCall = NoCall

InitRespond == RespondInit /\ CfgIdle /\ WorkerIdle /\ FoIdle /\ InitIdle
               /\ QueryIdle /\ SelIdle /\ PageIdle /\ AdmIdle /\ LoadIdle
NextRespond ==
    \/ OpenStream
    \/ CallSendJson
    \/ \E p \in {ContentChunk, TerminalChunk} : CallSendSse(p)
    \/ CallSendSseDone
    \/ \E m \in HeartbeatModes : CallSendHeartbeat(m)
    \/ \E c \in ApiErrorCodes, m \in ApiErrorMessages, s \in ApiErrorStatuses,
          st \in BOOLEAN : CallSendApiError(c, m, s, st)
SpecRespond == InitRespond /\ [][NextRespond]_vars

\* ------------------------------------------------------------------------
\* Properties of the response transport
\* ------------------------------------------------------------------------
Positions(r) == 1..Len(r.chunks)
TerminalFrames(r) == {k \in Positions(r) : r.chunks[k].frame \in {"body", "done"}}
DoneFrames(r) == {k \in Positions(r) : r.chunks[k].frame = "done"}
ErrorOutcomes(r) == {k \in Positions(r) : r.chunks[k].payload.object = "error"}
SuccessOutcomes(r) ==
    {k \in Positions(r) : r.chunks[k].payload \in {Completion, ContentChunk}}

\* C11: once the response is ended, every transport call leaves it as it is,
\* so the terminal frame (the JSON body or [DONE]) stays the last thing written.
C11_NoWriteAfterEnd ==
    [][/\ res.writableEnded => res' = res
       /\ TerminalFrames(res') \subseteq {Len(res'.chunks)}]_vars

C11_Witness ==
    /\ res.writableEnded
    /\ lastCall.fn = "sendHeartbeat"
    /\ ~lastCall.wrote
    /\ DoneFrames(res) # {}

\* A response whose headers went out as an event stream, opened by the
\* handler or implicitly by the first SSE write.
IsEventStream(r) == r.headersSent /\ r.contentType # "application/json"

\* C12: an ended event stream has exactly one [DONE] frame, as its last
\* frame; an error is a single data frame directly followed by [DONE].
C12_StreamEndsWithDone ==
    /\ (res.writableEnded /\ IsEventStream(res)) =>
            DoneFrames(res) = {Len(res.chunks)}
    /\ \A k \in ErrorOutcomes(res) :
            /\ ErrorOutcomes(res) = {k}
            /\ res.chunks[k].frame = "data" => k + 1 \in DoneFrames(res)

C12_Witness ==
    /\ res.writableEnded
    /\ res.contentType = "text/event-stream"
    /\ lastCall.fn = "sendApiError" /\ lastCall.wrote /\ lastCall.isStreaming
    /\ Len(res.chunks) > 2

\* C13 as stated: whatever calls are made, a response carries at most one
\* outcome, and exactly one once it is ended.
C13_Original ==
    /\ Cardinality(SuccessOutcomes(res) \cup ErrorOutcomes(res)) <= 1
    /\ res.writableEnded =>
            Cardinality(SuccessOutcomes(res) \cup ErrorOutcomes(res)) = 1

\* C13: at most one terminal frame is written and it is the last one; a
\* JSON response carries exactly one outcome and nothing else; an event
\* stream carries at most one error, as its last data frame.  Content chunks
\* before the terminal frame are not limited by the transport.
C13_OneTerminalOutcome ==
    /\ Cardinality(TerminalFrames(res)) <= 1
    /\ TerminalFrames(res) \subseteq {Len(res.chunks)}
    /\ Cardinality(ErrorOutcomes(res)) <= 1
    /\ \A k \in ErrorOutcomes(res) : k + 1 >= Len(res.chunks)
    /\ res.contentType = "application/json" =>
            /\ Len(res.chunks) = 1
            /\ Cardinality(SuccessOutcomes(res) \cup ErrorOutcomes(res)) = 1

C13_Witness ==
    /\ res.writableEnded
    /\ SuccessOutcomes(res) # {}
    /\ ErrorOutcomes(res) # {}
    /\ lastCall.fn = "sendApiError" /\ lastCall.wrote

\* The status and error type the error taxonomy lists for each code.
Entry(s, t) == [status |-> s, type |-> t]
TaxonomyTable == [c \in ERROR_CODES |->
    CASE c = "UNAUTHORIZED" -> Entry(401, "invalid_request")
      [] c = "BROWSER_NOT_INITIALIZED" -> Entry(503, "server_error")
      [] c = "SERVER_BUSY" -> Entry(429, "rate_limit")
      [] c = "RECAPTCHA" -> Entry(403, "server_error")
      [] c = "INTERNAL_ERROR" -> Entry(500, "server_error")
      [] c = "GENERATION_FAILED" -> Entry(502, "server_error")
      [] OTHER -> Entry(400, "invalid_request")]

\* The error type on the wire for a type of the table.
WireType(t) == CASE t = "invalid_request" -> "invalid_request_error"
                 [] t = "rate_limit" -> "rate_limit_error"
                 [] OTHER -> t

\* A non-streaming sendApiError call that wrote the response.
JsonErrorSent ==
    /\ lastCall.fn = "sendApiError" /\ lastCall.wrote /\ ~lastCall.isStreaming

\* C17 as stated: status and type are the table's entry, whatever the options.
C17_Original ==
    JsonErrorSent =>
        LET code == lastCall.code
            error == res.chunks[1].payload.error
        IN  IF code \in ERROR_CODES
            THEN /\ res.statusCode = TaxonomyTable[code].status
                 /\ error.type = TaxonomyTable[code].type
                 /\ error.code = code
            ELSE res.statusCode = 500

\* C17: without a status option, the status is the table's entry and the
\* type is the table's entry in its wire form (invalid_request_error,
\* rate_limit_error, server_error); the body's code is the given code; an
\* unknown or missing code gives 500 and server_error, a missing code is
\* reported as INTERNAL_ERROR.  A status option replaces the status.
C17_ErrorMapping ==
    JsonErrorSent =>
        LET code == lastCall.code
            error == res.chunks[1].payload.error
        IN  /\ res.contentType = "application/json"
            /\ res.statusCode =
                    IF lastCall.status # 0 THEN lastCall.status
                    ELSE IF code \in ERROR_CODES THEN TaxonomyTable[code].status
                    ELSE 500
            /\ error.type = IF code \in ERROR_CODES
                            THEN WireType(TaxonomyTable[code].type)
                            ELSE "server_error"
            /\ error.code = IF code = "" THEN "INTERNAL_ERROR" ELSE code

C17_Witness ==
    /\ JsonErrorSent
    /\ lastCall.code = "SERVER_BUSY" /\ lastCall.status = 0
    /\ res.statusCode = 429
    /\ res.chunks[1].payload.error.type = "rate_limit_error"

\* ------------------------------------------------------------------------
\* Configuration loading (src/unnamed/part_006)
\* A missing string field is "", a missing array is <<>>, a missing proxy
\* block is NoProxy; `enable` is "true", "false" or "undefined".
\* ------------------------------------------------------------------------
NoProxy == [present |-> FALSE, enable |-> "undefined", server |-> ""]
ProxyBlock(enable, server) ==
    [present |-> TRUE, enable |-> enable, server |-> server]

\* path.join(process.cwd(), 'data', ...), as path segments.
resolveUserDataDir(userDataMark) ==
    IF userDataMark = "" THEN <<"data", "camoufoxUserData">>
    ELSE <<"data", "camoufoxUserData_", userDataMark>>

\* null (direct connection) is NoProxy.
resolveProxyConfigGlobalFirst(globalProxy, instanceProxy) ==
    IF globalProxy.present /\ globalProxy.enable = "true" THEN globalProxy
    ELSE IF instanceProxy.present /\ instanceProxy.enable = "true"
         THEN instanceProxy
    ELSE NoProxy
resolveProxyConfig(globalProxy, instanceProxy) ==
    IF instanceProxy.present /\ instanceProxy.enable = "false" THEN NoProxy
    ELSE IF instanceProxy.present /\ instanceProxy.enable = "true"
         THEN instanceProxy
    ELSE IF globalProxy.present /\ globalProxy.enable = "true" THEN globalProxy
    ELSE NoProxy

\* The message of the error a validation throws, "" when it passes.
validateInstance(instance) ==
    IF instance.name = "" THEN "instance lacks name"
    ELSE IF instance.workers = <<>> THEN "instance lacks a workers array"
    ELSE ""
validateWorker(worker) ==
    IF worker.name = "" THEN "worker lacks name"
    ELSE IF worker.type = "" THEN "worker lacks type"
    ELSE IF worker.type = "merge" /\ worker.mergeTypes = <<>>
         THEN "merge worker lacks mergeTypes"
    ELSE ""

\* The state of the two loops of flattenInstancesToWorkers: the workers
\* pushed, the names seen, and the message of the error thrown ("" if none).
FlattenStart == [workers |-> <<>>, workerNames |-> {}, error |-> ""]

flatWorker(instance, globalProxy, worker) ==
    [name |-> worker.name, type |-> worker.type,
     mergeTypes |-> worker.mergeTypes,
     instanceName |-> instance.name, userDataMark |-> instance.userDataMark,
     userDataDir |-> resolveUserDataDir(instance.userDataMark),
     resolvedProxy |-> resolveProxyConfig(globalProxy, instance.proxy)]

\* The names check of the inner loop.
nameTakenNever(workerNames, name) == FALSE
nameTaken(workerNames, name) == name \in workerNames

RECURSIVE flattenWorkers(_, _, _, _)
flattenWorkers(instance, globalProxy, j, acc) ==
    IF acc.error # "" \/ j > Len(instance.workers) THEN acc
    ELSE LET worker == instance.workers[j]
             invalid == validateWorker(worker)
         IN  IF invalid # "" THEN [acc EXCEPT !.error = invalid]
             ELSE IF nameTaken(acc.workerNames, worker.name)
                  THEN [acc EXCEPT !.error = "worker name repeated"]
             ELSE flattenWorkers(instance, globalProxy, j + 1,
                    [acc EXCEPT
                        !.workerNames = @ \cup {worker.name},
                        !.workers = Append(@, flatWorker(instance, globalProxy,
                                                         worker))])

RECURSIVE flattenInstances(_, _, _, _)
flattenInstances(instances, globalProxy, k, acc) ==
    IF acc.error # "" \/ k > Len(instances) THEN acc
    ELSE LET invalid == validateInstance(instances[k])
         IN  IF invalid # "" THEN [acc EXCEPT !.error = invalid]
             ELSE flattenInstances(instances, globalProxy, k + 1,
                    flattenWorkers(instances[k], globalProxy, 1, acc))

flattenInstancesToWorkers(instances, globalProxy) ==
    flattenInstances(instances, globalProxy, 1, FlattenStart)

\* The queue block of the file: absent, or with or without queueBuffer.
NoQueue == [present |-> FALSE, hasQueueBuffer |-> FALSE, queueBuffer |-> 0]
QueueBlock(hasBuffer, n) ==
    [present |-> TRUE, hasQueueBuffer |-> hasBuffer, queueBuffer |-> n]
DefaultQueueBuffer == 2

\* config.queue after loadConfig, for a flattened list of nWorkers workers.
maxConcurrentPlusOne(nWorkers) == nWorkers + 1
maxConcurrent(nWorkers) == nWorkers
queueDefaultsIgnoreFile(queueBlock, nWorkers) ==
    [queueBuffer |-> DefaultQueueBuffer, maxConcurrent |-> maxConcurrent(nWorkers)]
queueDefaults(queueBlock, nWorkers) ==
    [queueBuffer |-> IF queueBlock.present /\ queueBlock.hasQueueBuffer
                     THEN queueBlock.queueBuffer ELSE DefaultQueueBuffer,
     maxConcurrent |-> maxConcurrent(nWorkers)]

\* The inputs: configuration files with up to MaxInstances instances.
MaxInstances == 2
W1 == [name |-> "w1", type |-> "a", mergeTypes |-> <<>>]
W2 == [name |-> "w2", type |-> "merge", mergeTypes |-> <<"a", "b">>]
WorkerLists == {<<W1>>, <<W2>>, <<W1, W2>>, <<W1, W1>>}
InstanceProxies == {NoProxy, ProxyBlock("true", "p1"), ProxyBlock("false", "p1"),
                    ProxyBlock("undefined", "p1")}
GlobalProxies == {NoProxy, ProxyBlock("true", "g1"), ProxyBlock("false", "g1")}
Instance(n, m, p, ws) ==
    [name |-> n, userDataMark |-> m, proxy |-> p, workers |-> ws]
ValidInstances ==
    {Instance(n, m, p, ws) : n \in {"i1", "i2"}, m \in {"", "m1"},
                             p \in InstanceProxies, ws \in WorkerLists}
InvalidInstances ==
    {Instance("", "", NoProxy, <<W1>>),
     Instance("i1", "", NoProxy, <<>>),
     Instance("i1", "", NoProxy, <<[W1 EXCEPT !.name = ""]>>),
     Instance("i1", "", NoProxy, <<[W1 EXCEPT !.type = ""]>>),
     Instance("i1", "", NoProxy, <<[W2 EXCEPT !.mergeTypes = <<>>]>>)}
RECURSIVE SeqsUpTo(_, _)
SeqsUpTo(S, n) ==
    IF n = 0 THEN {<<>>}
    ELSE LET shorter == SeqsUpTo(S, n - 1)
         IN  shorter \cup {Append(t, x) : t \in {u \in shorter : Len(u) = n - 1},
                                          x \in S}
InstanceLists ==
    SeqsUpTo(ValidInstances \cup InvalidInstances, MaxInstances)
QueueBlocks == {NoQueue, QueueBlock(FALSE, 0), QueueBlock(TRUE, 0),
                QueueBlock(TRUE, 1)}

\* loadConfig, from the instances check on: the flattened workers and the
\* queue settings, or the error thrown.
LoadConfig ==
    /\ loaded.state = "none"
    /\ LET flat == flattenInstancesToWorkers(configFile.instances,
                                             configFile.proxy)
       IN  loaded' = IF configFile.instances = <<>>
                     THEN [NotLoaded EXCEPT !.state = "failed",
                                            !.error = "instances is empty"]
                     ELSE IF flat.error # ""
                     THEN [NotLoaded EXCEPT !.state = "failed",
                                            !.error = flat.error]
                     ELSE [state |-> "ok", error |-> "",
                           workers |-> flat.workers,
                           queue |-> queueDefaults(configFile.queue,
                                                   Len(flat.workers))]
    /\ UNCHANGED configFile
    /\ UNCHANGED <<vars_fo, vars_cfg, vars_w, vars_init, vars_q, vars_res, vars_adm, vars_sel, vars_page>>

LoadInit ==
    /\ \E g \in GlobalProxies, is \in InstanceLists :
            configFile = [proxy |-> g, queue |-> NoQueue, instances |-> is]
    /\ loaded = NotLoaded

InitLoad == LoadInit /\ CfgIdle /\ WorkerIdle /\ FoIdle /\ InitIdle
            /\ QueryIdle /\ SelIdle /\ PageIdle /\ ResIdle /\ AdmIdle
NextLoad == LoadConfig
SpecLoad == InitLoad /\ [][NextLoad]_vars

\* ------------------------------------------------------------------------
\* Request admission and the dispatch loop (section 4.5, rules 6 and 7).
\* Every Worker is a candidate of every request; the earlier admission
\* rules (authentication, messages, model, image policy) have passed.
\* ------------------------------------------------------------------------
MaxWorkers == 2
MaxRequests == 4
RequestIds == 1..MaxRequests

NoRequest == [stream |-> FALSE, state |-> "none", seen |-> 0, worker |-> 0]

RECURSIVE SumBusy(_)
SumBusy(w) == IF w = 0 THEN 0 ELSE busy[w] + SumBusy(w - 1)
\* Rule 6: the in-flight tasks (sum of the busy counters) plus the queued ones.
taskCount == SumBusy(Len(busy)) + Len(queue)

\* Rule 6: only a non-streaming request is refused for lack of capacity.
serverBusyAnyRequest(stream, count) ==
    count >= queueConfig.maxConcurrent + queueConfig.queueBuffer
serverBusy(stream, count) ==
    ~stream /\ count >= queueConfig.maxConcurrent + queueConfig.queueBuffer

\* The dispatch loop reserves a Worker whose busy counter is zero.
workerIdle(w) == busy[w] = 0

\* The requests admitted and not yet finished, counted from the requests.
Outstanding == {q \in RequestIds : requests[q].state \in {"queued", "running"}}

\* Request r arrives and passes rules 6 and 7.
Admit(r, stream) ==
    /\ requests[r].state = "none"
    /\ \A q \in RequestIds : q < r => requests[q].state # "none"
    /\ IF serverBusy(stream, taskCount)
       THEN /\ requests' = [requests EXCEPT ![r] =
                    [stream |-> stream, state |-> "rejected",
                     seen |-> Cardinality(Outstanding), worker |-> 0]]
            /\ UNCHANGED queue
       ELSE /\ requests' = [requests EXCEPT ![r] =
                    [stream |-> stream, state |-> "queued",
                     seen |-> Cardinality(Outstanding), worker |-> 0]]
            /\ queue' = Append(queue, r)
    /\ UNCHANGED <<queueFile, queueConfig, busy>>
    /\ UNCHANGED <<vars_fo, vars_cfg, vars_w, vars_init, vars_q, vars_res, vars_load, vars_sel, vars_page>>

\* The dispatch loop hands the head of the queue to an idle Worker.
Dispatch(w) ==
    /\ queue # <<>>
    /\ w \in DOMAIN busy
    /\ workerIdle(w)
    /\ busy' = [busy EXCEPT ![w] = @ + 1]
    /\ requests' = [requests EXCEPT ![Head(queue)].state = "running",
                                    ![Head(queue)].worker = w]
    /\ queue' = Tail(queue)
    /\ UNCHANGED <<queueFile, queueConfig>>
    /\ UNCHANGED <<vars_fo, vars_cfg, vars_w, vars_init, vars_q, vars_res, vars_load, vars_sel, vars_page>>

\* The Worker returns the result of request r.
Complete(r) ==
    /\ requests[r].state = "running"
    /\ busy' = [busy EXCEPT ![requests[r].worker] = @ - 1]
    /\ requests' = [requests EXCEPT ![r].state = "done", ![r].worker = 0]
    /\ UNCHANGED <<queueFile, queueConfig, queue>>
    /\ UNCHANGED <<vars_fo, vars_cfg, vars_w, vars_init, vars_q, vars_res, vars_load, vars_sel, vars_page>>

AdmissionInit ==
    /\ \E n \in 1..MaxWorkers, q \in QueueBlocks :
            /\ queueFile = q
            /\ queueConfig = queueDefaults(q, n)
            /\ busy = [w \in 1..n |-> 0]
    /\ requests = [r \in RequestIds |-> NoRequest]
    /\ queue = <<>>

InitAdmission == AdmissionInit /\ CfgIdle /\ WorkerIdle /\ FoIdle /\ InitIdle
                 /\ QueryIdle /\ SelIdle /\ PageIdle /\ ResIdle /\ LoadIdle
NextAdmission ==
    \/ \E r \in RequestIds, stream \in BOOLEAN : Admit(r, stream)
    \/ \E w \in 1..MaxWorkers : Dispatch(w)
    \/ \E r \in RequestIds : Complete(r)
SpecAdmission == InitAdmission /\ [][NextAdmission]_vars

\* ------------------------------------------------------------------------
\* Properties of request admission
\* ------------------------------------------------------------------------
Workers == Len(busy)
\* queue.queueBuffer as configured: the file's value, 2 when the file has none.
ConfiguredBuffer == IF queueFile.present /\ queueFile.hasQueueBuffer
                    THEN queueFile.queueBuffer ELSE 2
Capacity == Workers + ConfiguredBuffer
Sent(r) == requests[r].state # "none"
Rejected(r) == requests[r].state = "rejected"

\* C14: a non-streaming request is rejected exactly when the admitted,
\* unfinished tasks it found were at least Workers + queueBuffer; with one
\* Worker and queueBuffer 0, of two concurrent non-streaming requests the
\* second is rejected and the first is not.
C14_RejectedAtCapacity ==
    /\ \A r \in RequestIds :
            (Sent(r) /\ ~requests[r].stream) =>
                (Rejected(r) <=> requests[r].seen >= Capacity)
    /\ (/\ Workers = 1 /\ ConfiguredBuffer = 0
        /\ Sent(2) /\ ~requests[1].stream /\ ~requests[2].stream
        /\ requests[2].seen = 1)
            => (Rejected(2) /\ requests[1].state \in {"queued", "running", "done"})

C14_Witness ==
    /\ Workers = 1 /\ ConfiguredBuffer = 0
    /\ ~requests[1].stream /\ requests[1].state = "done"
    /\ ~requests[2].stream /\ requests[2].seen = 1 /\ Rejected(2)

\* C15: a streaming request is never rejected, whatever it finds: it is
\* put at the end of the queue, and a request leaves the queue only as its
\* head and only for a Worker whose busy counter is zero.
C15_StreamAlwaysAdmitted ==
    [][\A r \in RequestIds :
        /\ (~Sent(r) /\ requests'[r].state # "none" /\ requests'[r].stream) =>
                /\ requests'[r].state = "queued"
                /\ queue' = Append(queue, r)
        /\ (requests[r].state = "queued" /\ requests'[r].state # "queued") =>
                /\ requests'[r].state = "running"
                /\ queue # <<>> /\ Head(queue) = r
                /\ busy[requests'[r].worker] = 0
                /\ busy'[requests'[r].worker] = 1]_vars

C15_Witness ==
    \E r \in RequestIds :
        /\ requests[r].stream
        /\ requests[r].seen > Capacity
        /\ requests[r].state = "running"

\* All of the requests 1..k are non-streaming and were sent while every
\* earlier one was still queued or running.
Simultaneous(k) ==
    \A q \in 1..k : Sent(q) /\ ~requests[q].stream /\ requests[q].seen = q - 1

\* C16 as stated: the (Workers + queueBuffer)-th simultaneous non-streaming
\* request is rejected.
C16_Original ==
    \A k \in RequestIds :
        (k = Capacity /\ Simultaneous(k - 1) /\ Sent(k) /\ ~requests[k].stream
         /\ requests[k].seen = k - 1) => Rejected(k)

\* C16: the first Workers + queueBuffer simultaneous non-streaming requests
\* are admitted, the next one is rejected, and a streaming request sent
\* after it is admitted.
C16_AtCapacity ==
    \A k \in RequestIds :
        (k = Capacity + 1 /\ Simultaneous(k - 1) /\ Sent(k)) =>
            /\ \A q \in 1..(k - 1) : ~Rejected(q)
            /\ (~requests[k].stream /\ requests[k].seen = k - 1) => Rejected(k)
            /\ (k + 1 \in RequestIds /\ Sent(k + 1) /\ requests[k + 1].stream)
                    => requests[k + 1].state \in {"queued", "running", "done"}

C16_Witness ==
    \E k \in RequestIds :
        /\ k = Capacity + 1 /\ Simultaneous(k - 1)
        /\ ~requests[k].stream /\ requests[k].seen = k - 1 /\ Rejected(k)
        /\ k + 1 \in RequestIds
        /\ requests[k + 1].stream /\ requests[k + 1].state = "queued"
        /\ requests[k + 1].seen = k - 1

\* ------------------------------------------------------------------------
\* Properties of configuration loading
\* ------------------------------------------------------------------------
\* The workers of the file, instance after instance.
RECURSIVE FileWorkersFrom(_)
FileWorkersFrom(k) ==
    IF k > Len(configFile.instances) THEN <<>>
    ELSE configFile.instances[k].workers \o FileWorkersFrom(k + 1)
FileWorkers == FileWorkersFrom(1)

WorkerNamesDistinct ==
    \A a, b \in DOMAIN FileWorkers :
        a # b => FileWorkers[a].name # FileWorkers[b].name

\* The instance of the file that declares the worker of this name.
OwnerOf(name) ==
    configFile.instances[
        CHOOSE k \in DOMAIN configFile.instances :
            \E j \in DOMAIN configFile.instances[k].workers :
                configFile.instances[k].workers[j].name = name]

\* C18: a loaded worker's proxy is its instance's block when that is present
\* and enabled, none when the block is present and explicitly disabled, and
\* the global proxy (if enabled, else none) when the instance has no block.
C18_ProxyResolution ==
    loaded.state = "ok" =>
        \A w \in Range(loaded.workers) :
            LET p == OwnerOf(w.name).proxy
                g == configFile.proxy
            IN  /\ (p.present /\ p.enable = "true") => w.resolvedProxy = p
                /\ (p.present /\ p.enable = "false") => w.resolvedProxy = NoProxy
                /\ ~p.present =>
                        w.resolvedProxy =
                            IF g.present /\ g.enable = "true" THEN g ELSE NoProxy

C18_Witness ==
    /\ loaded.state = "ok"
    /\ configFile.proxy.present /\ configFile.proxy.enable = "true"
    /\ \E w \in Range(loaded.workers) :
            /\ OwnerOf(w.name).proxy.present
            /\ OwnerOf(w.name).proxy.enable = "false"
            /\ w.resolvedProxy = NoProxy
    /\ \E w \in Range(loaded.workers) :
            /\ ~OwnerOf(w.name).proxy.present
            /\ w.resolvedProxy = configFile.proxy

\* C19: a load succeeds only when the worker names of the file are pairwise
\* distinct; with a repeated name, in the same or another instance, it fails
\* with an error and leaves no worker list.
C19_WorkerNamesUnique ==
    loaded.state # "none" =>
        /\ loaded.state = "ok" => WorkerNamesDistinct
        /\ ~WorkerNamesDistinct =>
                /\ loaded.state = "failed"
                /\ loaded.error # ""
                /\ loaded.workers = <<>>

C19_Witness ==
    /\ loaded.state = "failed"
    /\ loaded.error = "worker name repeated"
    /\ loaded.workers = <<>>
    /\ Len(configFile.instances) = 2
    /\ configFile.instances[1].workers = <<W1, W2>>
    /\ configFile.instances[2].workers = <<W2>>

\* C20: after a successful load no two instances of the file have the same
\* name or resolve to the same user-data directory.
C20_InstancesUnique ==
    loaded.state = "ok" =>
        \A a, b \in DOMAIN configFile.instances :
            a # b =>
                /\ configFile.instances[a].name # configFile.instances[b].name
                /\ resolveUserDataDir(configFile.instances[a].userDataMark)
                    # resolveUserDataDir(configFile.instances[b].userDataMark)

\* ------------------------------------------------------------------------
\* Properties of the Worker's model list
\* ------------------------------------------------------------------------
\* C21: the Worker supports the id of every entry getModels returns, the
\* bare ids as well as the <adapterType>/<id> ones.
C21_ListedModelsSupported ==
    answer.op = "getModels" =>
        \A k \in DOMAIN answer.models : supports(answer.models[k].id)

C21_Witness ==
    /\ answer.op = "getModels"
    /\ workerType = "merge"
    /\ Len(answer.models) >= 3
    /\ \E k \in DOMAIN answer.models : answer.models[k].id = ModelM
    /\ \E k \in DOMAIN answer.models : Len(answer.models[k].id) = 2

JustThrew ==
    /\ Len(outcomes') = Len(outcomes) + 1
    /\ outcomes'[Len(outcomes')].kind = "throw"

\* C23: a thrown attempt is a failed attempt whose error is the exception
\* message: the message becomes lastError, the next candidate is tried if the
\* budget allows (with the onRetry call of a failed attempt), and otherwise
\* execute resolves to the exhausted result object built from the message.
C23_ThrowIsFailedAttempt ==
    [][JustThrew =>
        LET msg == outcomes'[Len(outcomes')].error
            ma == maxAttempts(maxRetries, Len(candidates))
        IN  /\ msg \in ThrowMessages
            /\ lastError' = msg
            /\ i' = i + 1
            /\ IF i + 1 < ma
               THEN /\ fo_pc' = "awaiting"
                    /\ attempts' = Append(attempts, candidates[i + 2])
                    /\ retryLog' = Append(retryLog, <<candidates[i + 1], msg, i + 1>>)
                    /\ fo_result' = NoResult
               ELSE /\ fo_pc' = "done"
                    /\ attempts' = attempts /\ retryLog' = retryLog
                    /\ fo_result' = [error |-> <<"all candidates failed: ">> \o msg,
                                     code |-> "FAILOVER_EXHAUSTED", value |-> 0]]_vars

C23_Witness ==
    /\ fo_pc = "done"
    /\ Len(outcomes) = 2
    /\ outcomes[1].kind = "throw" /\ outcomes[2].kind = "throw"
    /\ fo_result.code = "FAILOVER_EXHAUSTED"
    /\ Len(candidates) > 2


\* ------------------------------------------------------------------------
\* Busy counter around one adapter invocation
\* ------------------------------------------------------------------------
Running == {t \in TaskIds : tasks[t].pc = "adapter"}

\* Tasks whose step invoked an adapter, found no adapter, saw their adapter
\* complete.
Invoked == {t \in TaskIds : Len(tasks'[t].calls) = Len(tasks[t].calls) + 1}
FoundMissing ==
    {t \in TaskIds : /\ tasks[t].pc # "adapter"
                     /\ tasks'[t].pc = "resume"
                     /\ tasks'[t] # tasks[t]}
Completed == {t \in TaskIds : tasks[t].pc = "adapter" /\ tasks'[t].pc # "adapter"}

BusyBrackets ==
    /\ busyCount' = busyCount + Cardinality(Invoked) - Cardinality(Completed)
    /\ \A t \in Invoked : tasks'[t].pc = "adapter" /\ busyCount' >= 1
    /\ \A t \in FoundMissing :
            /\ \E ty \in AdapterTypes \ adapters : tasks'[t].pending = AdapterMissing(ty)
            /\ tasks'[t].calls = tasks[t].calls
            /\ busyCount' = busyCount
    /\ \A t \in Completed :
            /\ tasks'[t].pc = "resume"
            /\ tasks'[t].calls = tasks[t].calls
            /\ busyCount' = busyCount - 1

\* C24: every adapter invocation increments the busy counter before the
\* adapter runs and decrements it exactly once when the adapter completes
\* (result, error or throw); a missing adapter leaves the counter alone; the
\* counter is never negative and is 0 when no invocation is in flight.
C24_BusyBracketsInvocation ==
    /\ [](busyCount = Cardinality(Running) /\ busyCount >= 0)
    /\ [][BusyBrackets]_vars

\* The adapter of the first candidate is missing, the second candidate's
\* adapter was invoked and threw, and the counter is back at 0.
C24_Witness ==
    \E t \in TaskIds :
        /\ tasks[t].pc = "resume" /\ tasks[t].pthrown
        /\ Len(tasks[t].cands) >= 2 /\ ~getAdapter(tasks[t].cands[1].type)
        /\ tasks[t].idx = 1 /\ Len(tasks[t].calls) = 1
        /\ busyCount = 0


\* ------------------------------------------------------------------------
\* _generateWithFailover against the Failover Executor
\* ------------------------------------------------------------------------
\* C25: a merge Worker's failover generate behaves as the Failover Executor
\* run on the list of _getCandidateTypes with the configured maxRetries: a
\* failing member (returned error or throw) is a failed attempt, the number
\* of attempts is the executor's maxAttempts, and exhaustion returns the
\* executor's result with the code FAILOVER_EXHAUSTED.
C25_WorkerRefinesExecutor ==
    \A t \in TaskIds :
        LET task == tasks[t]
            n    == Len(task.cands)
            ma   == maxAttempts(failoverConfig.maxRetries, n)
        IN  (usesFailover /\ task.pc = "done" /\ n > 0) =>
              /\ ~task.thrown
              /\ IsSuccess(task.result) => Len(task.calls) <= ma
              /\ ~IsSuccess(task.result) =>
                    /\ task.idx = ma
                    /\ \E e \in AdapterErrors \cup
                                {AdapterMissing(ty).error : ty \in AdapterTypes} :
                            task.result = ExhaustedResult(e)


\* ------------------------------------------------------------------------
\* generate with failover disabled
\* ------------------------------------------------------------------------
\* Member type supports the key: the key as it is, or its id part when the
\* key names the type.
memberSupportsKey(type, key) ==
    \/ supportsModel(type, key)
    \/ /\ includesSlash(key)
       /\ type = specifiedTypeOf(key)
       /\ supportsModel(type, actualModelOf(key))

\* The members that support the key, in mergeTypes order.
supportingMembersOfKey(key) ==
    LET ok(t) == memberSupportsKey(t, key) IN SelectSeq(mergeTypes, ok)

SingleAdapter(task) ==
    /\ Len(task.calls) <= 1
    /\ task.calls # <<>> =>
            /\ IF workerType = "merge"
               THEN /\ supportingMembersOfKey(task.key) # <<>>
                    /\ task.calls[1].type = supportingMembersOfKey(task.key)[1]
               ELSE task.calls[1].type = workerType
            /\ task.pc \in {"adapter", "resume", "done"}

ReturnsAdapterResult(t) ==
    (tasks[t].pc = "resume" /\ tasks'[t] # tasks[t]) =>
        /\ tasks'[t].pc = "done"
        /\ tasks'[t].result = tasks[t].pending
        /\ tasks'[t].thrown = tasks[t].pthrown
        /\ tasks'[t].calls = tasks[t].calls

\* C26: with failover.enabled = false a generate call invokes at most one
\* adapter -- for a merge Worker that of the first member, in configured
\* order, that supports the model -- and returns that adapter's result,
\* success or error, without trying another member.
C26_NoFailoverOneAdapter ==
    /\ [](~failoverEnabled => \A t \in TaskIds : SingleAdapter(tasks[t]))
    /\ [][~failoverEnabled => \A t \in TaskIds : ReturnsAdapterResult(t)]_vars

\* Two members support m, failover is off, the first one's adapter returned
\* an error and generate returned that error after one invocation.
C26_Witness ==
    /\ workerType = "merge" /\ ~failoverEnabled
    /\ Len(supportingMembers(ModelM)) >= 2
    /\ tasks[1].key = ModelM /\ tasks[1].pc = "done"
    /\ tasks[1].result = Failure(ErrTimeout)
    /\ tasks[1].calls = <<[type |-> supportingMembers(ModelM)[1], modelId |-> ModelM]>>


\* ------------------------------------------------------------------------
\* supports against generate
\* ------------------------------------------------------------------------
ReturnedNotSupported(task) ==
    task.pc = "done" /\ ~task.thrown /\ task.result = NotSupported(task.key)

\* C27: supports(modelKey) is true exactly when generate(modelKey) does not
\* return the 'Worker does not support model' error; for a merge Worker the
\* candidate list of the key is non-empty exactly when supports is true.
C27_SupportsIffNotRejected ==
    /\ \A t \in TaskIds :
            tasks[t].pc # "idle" =>
                (supports(tasks[t].key) <=> ~ReturnedNotSupported(tasks[t]))
    /\ workerType = "merge" =>
            \A k \in ModelKeys : supports(k) <=> getCandidateTypes(k) # <<>>

\* A merge Worker was asked for b/m: b is not the first member, supports is
\* true, and generate ran b's adapter; and some other key is rejected.
C27_Witness ==
    /\ workerType = "merge"
    /\ mergeTypes[1] # "b"
    /\ tasks[1].key = <<"b", "m">> /\ supports(<<"b", "m">>)
    /\ tasks[1].pc = "done" /\ tasks[1].result = Success(1)
    /\ ~supports(<<"a", "x">>)


\* ------------------------------------------------------------------------
\* createStrategySelector(strategy): sort and select
\* ------------------------------------------------------------------------
MaxSelCandidates == 3
MaxIndex == 4

\* The busy counters a candidate can show
BusyValues == {0, 1}

\* STRATEGIES, and a name outside the enumeration
StrategyNames == {"least_busy", "round_robin", "random", "other"}

\* Candidate lists: the Workers of a list are identified by their position
\* in it, each with its current busy counter.
CandidateLists ==
    UNION {{[k \in 1..n |-> [id |-> k, busyCount |-> b[k]]] :
                b \in [1..n -> BusyValues]} : n \in 0..MaxSelCandidates}

\* a.busyCount || 0
busyKey(c) == IF c.busyCount = 0 THEN 0 ELSE c.busyCount

\* Array.prototype.sort with the comparator a.busyCount - b.busyCount: a
\* stable sort since ECMAScript 2019, built here by stable insertion.
insertBeforeEquals(sorted, x) ==
    LET k == Cardinality({j \in 1..Len(sorted) : busyKey(sorted[j]) < busyKey(x)})
    IN  SubSeq(sorted, 1, k) \o <<x>> \o SubSeq(sorted, k + 1, Len(sorted))
insertStable(sorted, x) ==
    LET k == Cardinality({j \in 1..Len(sorted) : busyKey(sorted[j]) <= busyKey(x)})
    IN  SubSeq(sorted, 1, k) \o <<x>> \o SubSeq(sorted, k + 1, Len(sorted))

RECURSIVE sortByBusy(_)
sortByBusy(cands) ==
    IF Len(cands) = 0 THEN <<>>
    ELSE insertStable(sortByBusy(SubSeq(cands, 1, Len(cands) - 1)), cands[Len(cands)])

\* [...candidates.slice(start), ...candidates.slice(0, start)]
rotateOneMore(cands, start) ==
    SubSeq(cands, start + 2, Len(cands)) \o SubSeq(cands, 1, start + 1)
rotate(cands, start) ==
    SubSeq(cands, start + 1, Len(cands)) \o SubSeq(cands, 1, start)

\* [...candidates].sort(() => Math.random() - 0.5): some order of the copy
shuffles(cands) ==
    {[k \in 1..Len(cands) |-> cands[p[k]]] : p \in Permutations(1..Len(cands))}

\* sort(candidates) of selector s: the arrays it can return, each with the
\* value of roundRobinIndex after the call.
sortResults(s, cands) ==
    IF Len(cands) <= 1
    THEN {[sorted |-> cands, index |-> roundRobinIndex[s]]}
    ELSE CASE strategy[s] = "round_robin" ->
                {[sorted |-> rotate(cands, roundRobinIndex[s] % Len(cands)),
                  index |-> roundRobinIndex[s] + 1]}
           [] strategy[s] = "random" ->
                {[sorted |-> p, index |-> roundRobinIndex[s]] : p \in shuffles(cands)}
           [] OTHER ->
                {[sorted |-> sortByBusy(cands), index |-> roundRobinIndex[s]]}

\* The array passed to sort, after the call: every branch works on a copy.
inputAfterSortInPlace(cands, sorted) == sorted
inputAfterSort(cands, sorted) == cands

\* The last n elements of a sequence
LastN(seq, n) == IF Len(seq) <= n THEN seq ELSE SubSeq(seq, Len(seq) - n + 1, Len(seq))

\* Book-keeping of consecutive round_robin sort calls.
nextStreak(s, cands, sorted) ==
    IF Len(cands) < 2 \/ strategy[s] # "round_robin" THEN NoStreak
    ELSE IF streak.selector = s /\ streak.list = cands
         THEN [streak EXCEPT !.heads = LastN(Append(@, sorted[1]), Len(cands))]
         ELSE [selector |-> s, list |-> cands, heads |-> <<sorted[1]>>]

\* selector.sort(candidates)
CallSort(s, cands) ==
    /\ roundRobinIndex[s] < MaxIndex
    /\ \E r \in sortResults(s, cands) :
            /\ roundRobinIndex' = [roundRobinIndex EXCEPT ![s] = r.index]
            /\ selCall' = [selector |-> s, op |-> "sort", input |-> cands,
                           inputAfter |-> inputAfterSort(cands, r.sorted),
                           sorted |-> r.sorted, picked |-> NoCandidate]
            /\ streak' = nextStreak(s, cands, r.sorted)
    /\ UNCHANGED strategy
    /\ UNCHANGED <<vars_fo, vars_cfg, vars_w, vars_init, vars_q, vars_srv, vars_page>>

\* selector.select(candidates)
selectPicks(cands, sorted) ==
    IF Len(cands) = 0 THEN NoCandidate
    ELSE IF Len(cands) = 1 THEN cands[1]
    ELSE sorted[1]

CallSelect(s, cands) ==
    /\ roundRobinIndex[s] < MaxIndex
    /\ IF Len(cands) <= 1
       THEN /\ selCall' = [selector |-> s, op |-> "select", input |-> cands,
                           inputAfter |-> cands, sorted |-> <<>>,
                           picked |-> selectPicks(cands, <<>>)]
            /\ UNCHANGED <<roundRobinIndex, streak>>
       ELSE \E r \in sortResults(s, cands) :
            /\ roundRobinIndex' = [roundRobinIndex EXCEPT ![s] = r.index]
            /\ selCall' = [selector |-> s, op |-> "select", input |-> cands,
                           inputAfter |-> inputAfterSort(cands, r.sorted),
                           sorted |-> r.sorted,
                           picked |-> selectPicks(cands, r.sorted)]
            /\ streak' = nextStreak(s, cands, r.sorted)
    /\ UNCHANGED strategy
    /\ UNCHANGED <<vars_fo, vars_cfg, vars_w, vars_init, vars_q, vars_srv, vars_page>>

\* createStrategySelector(strategy), once per selector: s1 with any strategy
\* name next to a least_busy s2, or two round_robin selectors.
SelectorInit ==
    /\ strategy \in {[s \in Selectors |-> IF s = "s1" THEN x ELSE "least_busy"] :
                        x \in StrategyNames}
                     \cup {[s \in Selectors |-> "round_robin"]}
    /\ roundRobinIndex = [s \in Selectors |-> 0]
    /\ selCall = NoSelCall
    /\ streak = NoStreak

InitSelector == SelectorInit /\ CfgIdle /\ WorkerIdle /\ FoIdle /\ InitIdle
                /\ QueryIdle /\ ServerIdle /\ PageIdle
NextSelector ==
    \/ \E s \in Selectors, cands \in CandidateLists : CallSort(s, cands)
    \/ \E s \in Selectors, cands \in CandidateLists : CallSelect(s, cands)
SpecSelector == InitSelector /\ [][NextSelector]_vars


\* ------------------------------------------------------------------------
\* Strategy selector properties
\* ------------------------------------------------------------------------
\* The position of candidate c in list
PositionIn(list, c) == CHOOSE k \in 1..Len(list) : list[k] = c

\* out holds every element of inp exactly once
IsPermutation(out, inp) ==
    /\ Len(out) = Len(inp)
    /\ \A k \in 1..Len(inp) :
            Cardinality({j \in 1..Len(out) : out[j] = inp[k]}) = 1

\* C28: with strategy least_busy, sort returns the candidates in ascending
\* order of busy counter, and candidates with equal busy counters keep their
\* input order.
C28_LeastBusyStable ==
    (selCall.op = "sort" /\ strategy[selCall.selector] = "least_busy") =>
        LET inp == selCall.input
            out == selCall.sorted
        IN  /\ IsPermutation(out, inp)
            /\ \A p, q \in 1..Len(out) :
                    p < q =>
                        /\ out[p].busyCount <= out[q].busyCount
                        /\ out[p].busyCount = out[q].busyCount =>
                                PositionIn(inp, out[p]) < PositionIn(inp, out[q])

\* Busy counters 1, 0, 1: the second candidate comes first, the first and
\* the third follow in their input order.
C28_Witness ==
    /\ selCall.op = "sort" /\ strategy[selCall.selector] = "least_busy"
    /\ Len(selCall.input) = 3
    /\ selCall.input[1].busyCount = 1
    /\ selCall.input[2].busyCount = 0
    /\ selCall.input[3].busyCount = 1
    /\ selCall.sorted = <<selCall.input[2], selCall.input[1], selCall.input[3]>>

\* A step in which a round_robin selector sorted at least two candidates
\* (directly or inside select).
RoundRobinStep(s) ==
    (/\ strategy[s] = "round_robin"
     /\ selCall'.selector = s
     /\ Len(selCall'.input) >= 2) =>
        LET inp == selCall'.input
            n   == Len(inp)
        IN  /\ Len(selCall'.sorted) = n
            /\ \A k \in 1..n :
                    selCall'.sorted[k] = inp[((roundRobinIndex[s] + k - 1) % n) + 1]
            /\ roundRobinIndex'[s] = roundRobinIndex[s] + 1
            /\ \A o \in Selectors \ {s} : roundRobinIndex'[o] = roundRobinIndex[o]

\* C29: with strategy round_robin each sort call on n >= 2 candidates
\* returns the list rotated so that the candidate at position index mod n is
\* first, the index being a counter of the selector that only increases;
\* over n consecutive sort calls on one list each candidate is the head
\* exactly once, whatever calls came before.
C29_RoundRobinRotation ==
    /\ [][/\ \A s \in Selectors : RoundRobinStep(s)
          /\ \A s \in Selectors : roundRobinIndex'[s] >= roundRobinIndex[s]]_vars
    /\ [](/\ \A a, b \in 1..Len(streak.heads) :
                    a # b => streak.heads[a] # streak.heads[b]
          /\ Len(streak.heads) = Len(streak.list) =>
                    Range(streak.heads) = Range(streak.list))

\* Three consecutive sorts of a three-candidate list, begun after an earlier
\* call had moved the index: the first head was not the first candidate and
\* every candidate was head once.
C29_Witness ==
    /\ Len(streak.list) = 3 /\ Len(streak.heads) = 3
    /\ roundRobinIndex[streak.selector] = 4
    /\ streak.heads[1] = streak.list[2]
    /\ Range(streak.heads) = Range(streak.list)

\* C30: for every strategy and candidate list, sort returns a permutation of
\* its input and leaves the input list and the busy counters as they were;
\* select returns null for an empty list and otherwise the head of sort.
C30_SortPermutesSelectHead ==
    selCall.op # "none" =>
        LET inp == selCall.input
        IN  /\ selCall.inputAfter = inp
            /\ (selCall.op = "sort" \/ Len(inp) >= 2) =>
                    IsPermutation(selCall.sorted, inp)
            /\ selCall.op = "select" =>
                    IF Len(inp) = 0 THEN selCall.picked = NoCandidate
                    ELSE IF Len(inp) = 1
                         THEN \A r \in sortResults(selCall.selector, inp) :
                                    selCall.picked = r.sorted[1]
                         ELSE selCall.picked = selCall.sorted[1]

\* A random selector picked the third of three candidates, and the array it
\* was given still lists them in the order passed.
C30_Witness ==
    /\ selCall.op = "select" /\ strategy[selCall.selector] = "random"
    /\ Len(selCall.input) = 3
    /\ selCall.picked = selCall.input[3]
    /\ selCall.sorted # selCall.input
    /\ selCall.inputAfter = selCall.input


\* ------------------------------------------------------------------------
\* Page-auth flag: lockPageAuth, unlockPageAuth, waitForPageAuth, waitForInput
\* ------------------------------------------------------------------------
MaxTimeout == 2

\* isPageAuthLocked(page): page.authState?.isHandlingAuth === true
isPageAuthLocked == hasAuthState /\ isHandlingAuth

\* lockPageAuth(page): if (page.authState) page.authState.isHandlingAuth = true
lockPageAuth == IF hasAuthState THEN TRUE ELSE isHandlingAuth

\* unlockPageAuth(page)
unlockPageAuth == IF hasAuthState THEN FALSE ELSE isHandlingAuth

\* A navigation handler enters its critical section: it calls lockPageAuth,
\* which returns at once (the handlers are not part of the sources; they
\* lock before their input and unlock on every exit path, spec section 5).
HandlerLock(h) ==
    /\ handlerPc[h] = "idle"
    /\ isHandlingAuth' = lockPageAuth
    /\ handlerPc' = [handlerPc EXCEPT ![h] = "critical"]
    /\ UNCHANGED <<hasAuthState, authWait, inputCall>>
    /\ UNCHANGED <<vars_fo, vars_cfg, vars_w, vars_init, vars_q, vars_srv, vars_sel>>
    /\ UNCHANGED others_auth

\* The handler leaves its critical section through unlockPageAuth.
HandlerUnlock(h) ==
    /\ handlerPc[h] = "critical"
    /\ isHandlingAuth' = unlockPageAuth
    /\ handlerPc' = [handlerPc EXCEPT ![h] = "idle"]
    /\ UNCHANGED <<hasAuthState, authWait, inputCall>>
    /\ UNCHANGED <<vars_fo, vars_cfg, vars_w, vars_init, vars_q, vars_srv, vars_sel>>
    /\ UNCHANGED others_auth

\* waitForPageAuth(page) up to its first `await sleep`, or its return
pollSeesClearAlways == TRUE
pollSeesClear == ~isPageAuthLocked

CallWaitForPageAuth ==
    /\ authWait.pc \in {"idle", "returned"}
    /\ authWait' = IF pollSeesClear THEN [pc |-> "returned", slept |-> FALSE]
                                    ELSE [pc |-> "sleeping", slept |-> FALSE]
    /\ UNCHANGED <<hasAuthState, isHandlingAuth, handlerPc, inputCall>>
    /\ UNCHANGED <<vars_fo, vars_cfg, vars_w, vars_init, vars_q, vars_srv, vars_sel>>
    /\ UNCHANGED others_auth

\* `await sleep(500, 1000)` of waitForPageAuth returns and the loop tests again
WakeWaitForPageAuth ==
    /\ authWait.pc = "sleeping"
    /\ authWait' = IF pollSeesClear THEN [pc |-> "returned", slept |-> TRUE]
                                    ELSE [pc |-> "sleeping", slept |-> TRUE]
    /\ UNCHANGED <<hasAuthState, isHandlingAuth, handlerPc, inputCall>>
    /\ UNCHANGED <<vars_fo, vars_cfg, vars_w, vars_init, vars_q, vars_srv, vars_sel>>
    /\ UNCHANGED others_auth

\* The auth loop of waitForInput at elapsed time e (in sleeps): leave it when
\* the flag is clear or the timeout has passed.
leavesAuthLoop(e, timeout) == ~isPageAuthLocked \/ e >= timeout

\* waitForInput(page, selector, {timeout, click}) up to its first await
CallWaitForInput(timeout, click) ==
    /\ inputCall.pc = "idle"
    /\ inputCall' = [NoInputCall EXCEPT
                        !.pc = IF leavesAuthLoop(0, timeout) THEN "selector"
                                                             ELSE "authWait",
                        !.timeout = timeout, !.click = click]
    /\ UNCHANGED <<hasAuthState, isHandlingAuth, handlerPc, authWait>>
    /\ UNCHANGED <<vars_fo, vars_cfg, vars_w, vars_init, vars_q, vars_srv, vars_sel>>
    /\ UNCHANGED others_auth

\* `await sleep(500, 1000)` of the auth loop returns
WakeWaitForInput ==
    /\ inputCall.pc = "authWait"
    /\ inputCall' = [inputCall EXCEPT
                        !.elapsed = @ + 1,
                        !.pc = IF leavesAuthLoop(inputCall.elapsed + 1, inputCall.timeout)
                               THEN "selector" ELSE "authWait"]
    /\ UNCHANGED <<hasAuthState, isHandlingAuth, handlerPc, authWait>>
    /\ UNCHANGED <<vars_fo, vars_cfg, vars_w, vars_init, vars_q, vars_srv, vars_sel>>
    /\ UNCHANGED others_auth

\* page.waitForSelector / locator.waitFor settles: the input is visible, or
\* the wait timed out and waitForInput throws.
SelectorSettles(found) ==
    /\ inputCall.pc = "selector"
    /\ inputCall' = [inputCall EXCEPT
                        !.foundLocked = found /\ isPageAuthLocked,
                        !.returnLocked = found /\ ~inputCall.click /\ isPageAuthLocked,
                        !.pc = IF ~found THEN "failed"
                               ELSE IF inputCall.click THEN "click" ELSE "done"]
    /\ UNCHANGED <<hasAuthState, isHandlingAuth, handlerPc, authWait>>
    /\ UNCHANGED <<vars_fo, vars_cfg, vars_w, vars_init, vars_q, vars_srv, vars_sel>>
    /\ UNCHANGED others_auth

\* safeClick(page, selector) clicks the input
InputClicked ==
    /\ inputCall.pc = "click"
    /\ inputCall' = [inputCall EXCEPT !.clickLocked = isPageAuthLocked,
                                       !.pc = "afterClick"]
    /\ UNCHANGED <<hasAuthState, isHandlingAuth, handlerPc, authWait>>
    /\ UNCHANGED <<vars_fo, vars_cfg, vars_w, vars_init, vars_q, vars_srv, vars_sel>>
    /\ UNCHANGED others_auth

\* the closing `await sleep(500, 1000)` returns and waitForInput returns
InputReturns ==
    /\ inputCall.pc = "afterClick"
    /\ inputCall' = [inputCall EXCEPT !.returnLocked = isPageAuthLocked,
                                       !.pc = "done"]
    /\ UNCHANGED <<hasAuthState, isHandlingAuth, handlerPc, authWait>>
    /\ UNCHANGED <<vars_fo, vars_cfg, vars_w, vars_init, vars_q, vars_srv, vars_sel>>
    /\ UNCHANGED others_auth

\* A page of an initialized Worker (authState set by init) or a bare page.
AuthInit ==
    /\ hasAuthState \in BOOLEAN
    /\ isHandlingAuth = FALSE
    /\ handlerPc = [h \in Handlers |-> "idle"]
    /\ authWait = NoAuthWait
    /\ inputCall = NoInputCall

InitAuth == AuthInit /\ CfgIdle /\ WorkerIdle /\ FoIdle /\ InitIdle /\ QueryIdle
            /\ ServerIdle /\ SelIdle
            /\ NavIdle /\ OpsIdle /\ CfIdle /\ MonIdle
NextAuth ==
    \/ \E h \in Handlers : HandlerLock(h)
    \/ \E h \in Handlers : HandlerUnlock(h)
    \/ CallWaitForPageAuth
    \/ WakeWaitForPageAuth
    \/ \E t \in 0..MaxTimeout, c \in BOOLEAN : CallWaitForInput(t, c)
    \/ WakeWaitForInput
    \/ \E f \in BOOLEAN : SelectorSettles(f)
    \/ InputClicked
    \/ InputReturns
SpecAuth == InitAuth /\ [][NextAuth]_vars

\* The timers of the sleeps fire, and every holder unlocks.
AuthFairness ==
    /\ WF_vars(WakeWaitForPageAuth)
    /\ \A h \in Handlers : WF_vars(HandlerUnlock(h))
SpecAuthLive == InitAuth /\ [][NextAuth]_vars /\ AuthFairness

\* ------------------------------------------------------------------------
\* Page-auth flag properties
\* ------------------------------------------------------------------------
Holders == {h \in Handlers : handlerPc[h] = "critical"}

\* C31: the page-auth flag is a mutex: at most one critical section holds
\* it at any time, and a lockPageAuth issued while the flag is set does not
\* enter its critical section before the current holder has unlocked.
C31_FlagIsMutex ==
    /\ Cardinality(Holders) <= 1
    /\ hasAuthState => (isHandlingAuth <=> Holders # {})

\* C32: the foreground task never performs input while a handler holds the
\* flag: waitForInput finds, clicks and returns the input only in states
\* where the flag is clear.
C32_NoInputWhileLocked ==
    /\ ~inputCall.foundLocked
    /\ ~inputCall.clickLocked
    /\ ~inputCall.returnLocked


\* A step in which waitForPageAuth returned
WaitReturned == authWait'.pc = "returned" /\ authWait' # authWait

\* waitForPageAuth returns only after it has seen the flag clear, and at
\* once, without sleeping, on a page that has no authState.
ReturnsOnClear ==
    [][/\ WaitReturned => ~isPageAuthLocked
       /\ (~hasAuthState /\ authWait' # authWait) =>
                authWait' = [pc |-> "returned", slept |-> FALSE]]_vars

\* C33 as stated: if every holder of the flag eventually unlocks, every
\* waitForPageAuth call eventually returns, and only after it has observed
\* the flag clear; without authState it returns immediately.
C33_Original ==
    /\ (authWait.pc = "sleeping") ~> (authWait.pc = "returned")
    /\ ReturnsOnClear

\* C33: if every holder eventually unlocks and the flag is eventually not
\* set again, every waitForPageAuth call eventually returns; it returns only
\* after it has observed the flag clear, and immediately without authState.
C33_WaitReturns ==
    /\ <>[](~isPageAuthLocked) =>
            ((authWait.pc = "sleeping") ~> (authWait.pc = "returned"))
    /\ ReturnsOnClear

\* The call found the flag set, slept, and returned once it was clear.
C33_Witness ==
    /\ hasAuthState
    /\ authWait = [pc |-> "returned", slept |-> TRUE]
    /\ ~isPageAuthLocked

(***************************************************************************)
(* Initial navigation of a merge Worker                                    *)
(***************************************************************************)

\* The members of the merge Worker that have a target URL, in mergeTypes order
RECURSIVE membersWithUrl(_)
membersWithUrl(types) ==
    IF types = <<>> THEN <<>>
    ELSE (IF types[1] \in urlTypes THEN <<types[1]>> ELSE <<>>)
         \o membersWithUrl(Tail(types))

IsPrefixOf(p, q) == Len(p) <= Len(q) /\ SubSeq(q, 1, Len(p)) = p

\* C35: an init call of a merge Worker tries the target URLs of its members
\* in mergeTypes order, leaving out the members without one; it tries no
\* further URL after one loaded without error; and when it has finished the
\* Worker is initialized, also when every URL it tried failed (then it has
\* tried them all, unless it returned at once because the Worker was
\* initialized already).
C35_MergeNavigation ==
    workerType = "merge" =>
        \A c \in 1..MaxInitCalls :
            /\ IsPrefixOf(initCalls[c].tried, membersWithUrl(mergeTypes))
            /\ initCalls[c].loaded => initCalls[c].pc = "done"
            /\ initCalls[c].pc = "done" =>
                  /\ initialized
                  /\ initCalls[c].ran /\ ~initCalls[c].loaded =>
                        initCalls[c].tried = membersWithUrl(mergeTypes)

\* A merge Worker whose first member has no target URL has tried the URLs of
\* the other members, all failed, and is initialized.
C35_Witness ==
    /\ workerType = "merge"
    /\ initialized
    /\ \E c \in 1..MaxInitCalls :
          /\ initCalls[c].pc = "done"
          /\ ~initCalls[c].loaded
          /\ Len(initCalls[c].tried) >= 1
          /\ Len(initCalls[c].tried) < Len(mergeTypes)
          /\ mergeTypes[1] \notin urlTypes

(***************************************************************************)
(* The navigation-handler chain                                            *)
(***************************************************************************)

MaxEvents == 2

\* The callers of init start up one Worker after the other and await each
\* init call before anything else is done with the Worker.
SequentialInitCall(c, shared) ==
    /\ \A u \in InitCallers : initCalls[u].pc \in {"idle", "done"}
    /\ InitCall(c, shared)

\* A chain goes on after a handler has settled: `try { await handler(page) }
\* catch (e) {}` swallows what the handler throws.
chainStopsOnThrow(throws) == ~throws
chainContinues(throws) == TRUE

\* The page emits 'framenavigated'. The listener, when it is installed, calls
\* navigationHandler, which runs up to the await of the first handler.
NavigationEvent ==
    /\ Len(navLog) < MaxEvents
    /\ pagesCreated > 0
    /\ navLog' = Append(navLog,
            [wasInit |-> initialized,
             invoked |-> IF listenersInstalled > 0
                         THEN <<collectedHandlers[1]>> ELSE <<>>,
             pending |-> listenersInstalled > 0,
             threw   |-> FALSE])
    /\ UNCHANGED <<vars_fo, vars_cfg, vars_w, vars_init, vars_q, vars_srv, vars_sel>>
    /\ UNCHANGED others_nav

\* The handler a chain awaits returns or throws; the chain calls the next
\* handler of the list, or ends after the last one.
HandlerSettles(e, throws) ==
    /\ e \in 1..Len(navLog)
    /\ navLog[e].pending
    /\ LET n == Len(navLog[e].invoked)
           more == chainContinues(throws) /\ n < Len(collectedHandlers)
       IN  navLog' = [navLog EXCEPT ![e] =
                [@ EXCEPT !.invoked = IF more THEN Append(@, collectedHandlers[n + 1])
                                      ELSE @,
                          !.pending = more,
                          !.threw   = @ \/ throws]]
    /\ UNCHANGED <<vars_fo, vars_cfg, vars_w, vars_init, vars_q, vars_srv, vars_sel>>
    /\ UNCHANGED others_nav

NavInit == InitWorkerInit /\ urlTypes = AdapterTypes
InitNav == NavInit /\ WorkerIdle /\ FoIdle /\ QueryIdle /\ ServerIdle /\ SelIdle
           /\ PageIdle
NextNav ==
    \/ \E c \in InitCallers, shared \in BOOLEAN : SequentialInitCall(c, shared)
    \/ \E c \in InitCallers : InitPageCreated(c)
    \/ \E c \in InitCallers, ok \in BOOLEAN : InitGotoReturns(c, ok)
    \/ NavigationEvent
    \/ \E e \in 1..MaxEvents, throws \in BOOLEAN : HandlerSettles(e, throws)
SpecNav == InitNav /\ [][NextNav]_vars

\* C34: at every navigation event of an initialized Worker that is not in
\* login mode the handlers of all members are invoked one after the other, the
\* members in mergeTypes order and each member's handlers in registration
\* order, whether or not an earlier handler threw: the chain of such an event
\* has invoked an initial part of that list, awaits a handler while it is not
\* at the end, and has invoked them all once it is over. In login mode no
\* handler is invoked at all.
C34_HandlerChain ==
    \A e \in 1..Len(navLog) :
        /\ IsPrefixOf(navLog[e].invoked, collectedHandlers)
        /\ loginMode => navLog[e].invoked = <<>>
        /\ (navLog[e].wasInit /\ ~loginMode) =>
              IF navLog[e].pending THEN navLog[e].invoked # <<>>
              ELSE navLog[e].invoked = collectedHandlers

\* The chain of an event of an initialized merge Worker is over after a
\* handler threw, and handlers of two members were invoked.
C34_Witness ==
    \E e \in 1..Len(navLog) :
        /\ navLog[e].wasInit
        /\ navLog[e].threw
        /\ ~navLog[e].pending
        /\ workerType = "merge"
        /\ Len(navLog[e].invoked) >= 3

(***************************************************************************)
(* waitApiResponse and pasteImages on one page                             *)
(***************************************************************************)

MaxApiCalls == 2
MaxFiles == 2
MaxResponses == 3

\* isPageValid(page): `page && !page.isClosed()`
isPageValid == pageState # "closed"

\* pageWatcher.cleanup() of call k: page.off of both handlers
cleanupKeeps(listeners, k) == listeners
cleanup(listeners, k) == listeners \ {k}

\* waitApiResponse leaves its try block with `result`: the finally block
\* runs pageWatcher.cleanup().
apiExit(result) ==
    /\ apiCall' = [apiCall EXCEPT !.pc = "done", !.result = result,
                                  !.exit = pageState']
    /\ closeListeners' = cleanup(closeListeners, apiCall.calls)
    /\ crashListeners' = cleanup(crashListeners, apiCall.calls)

\* waitApiResponse(page, options) up to the await of Promise.race
CallWaitApiResponse ==
    /\ apiCall.pc \in {"idle", "done"}
    /\ apiCall.calls < MaxApiCalls
    /\ IF ~isPageValid
       THEN /\ apiCall' = [pc |-> "done", result |-> "PAGE_INVALID",
                           calls |-> apiCall.calls + 1,
                           entry |-> pageState, exit |-> pageState]
            /\ UNCHANGED <<closeListeners, crashListeners>>
       ELSE /\ apiCall' = [pc |-> "waiting", result |-> "none",
                           calls |-> apiCall.calls + 1,
                           entry |-> pageState, exit |-> "none"]
            /\ closeListeners' = closeListeners \cup {apiCall.calls + 1}
            /\ crashListeners' = crashListeners \cup {apiCall.calls + 1}
    /\ UNCHANGED <<pageState, responseListeners, paste>>
    /\ UNCHANGED <<vars_fo, vars_cfg, vars_w, vars_init, vars_q, vars_srv, vars_sel>>
    /\ UNCHANGED others_ops

\* page.waitForResponse rejects after options.timeout
ApiTimeout ==
    /\ apiCall.pc = "waiting"
    /\ UNCHANGED <<pageState, responseListeners, paste>>
    /\ apiExit("TIMEOUT")
    /\ UNCHANGED <<vars_fo, vars_cfg, vars_w, vars_init, vars_q, vars_srv, vars_sel>>
    /\ UNCHANGED others_ops

\* The page emits 'close' (state closed) or 'crash' (state crashed): the
\* handler registered with page.once rejects the watcher promise, which
\* settles the race of a waiting call.
PageEmits(event, state) ==
    /\ pageState' = state
    /\ IF apiCall.pc = "waiting"
       THEN apiExit(event)
       ELSE UNCHANGED <<apiCall, closeListeners, crashListeners>>
    /\ UNCHANGED <<responseListeners, paste>>
    /\ UNCHANGED <<vars_fo, vars_cfg, vars_w, vars_init, vars_q, vars_srv, vars_sel>>
    /\ UNCHANGED others_ops
PageCloses == pageState # "closed" /\ PageEmits("PAGE_CLOSED", "closed")
PageCrashes == pageState = "open" /\ PageEmits("PAGE_CRASHED", "crashed")

\* pasteImages(page, target, filePaths, options) up to `await safeClick`
CallPasteImages(n, validator) ==
    /\ paste.pc = "idle"
    /\ paste' = IF n = 0 THEN [paste EXCEPT !.pc = "returned"]
                ELSE [paste EXCEPT !.pc = "clicking", !.files = n,
                                   !.validator = validator]
    /\ UNCHANGED <<pageState, closeListeners, crashListeners, responseListeners, apiCall>>
    /\ UNCHANGED <<vars_fo, vars_cfg, vars_w, vars_init, vars_q, vars_srv, vars_sel>>
    /\ UNCHANGED others_ops

\* safeClick and the sleep after it are over; safeClick is outside the try
\* block, what it throws leaves pasteImages.
PasteClickSettles(ok) ==
    /\ paste.pc = "clicking"
    /\ paste' = [paste EXCEPT !.pc = IF ok THEN "scanning" ELSE "threw"]
    /\ UNCHANGED <<pageState, closeListeners, crashListeners, responseListeners, apiCall>>
    /\ UNCHANGED <<vars_fo, vars_cfg, vars_w, vars_init, vars_q, vars_srv, vars_sel>>
    /\ UNCHANGED others_ops

\* findAllFileInputs and the setInputFiles loop are over: no input found
\* ("none"), none accepted the files ("refused"), or one did ("uploaded").
\* With an uploadValidator the response listener and the 60 s timer are set.
PasteScanSettles(outcome) ==
    /\ paste.pc = "scanning"
    /\ IF outcome # "uploaded"
       THEN /\ paste' = [paste EXCEPT !.pc = "threw"]
            /\ UNCHANGED responseListeners
       ELSE IF paste.validator
       THEN /\ paste' = [paste EXCEPT !.pc = "waiting"]
            /\ responseListeners' = responseListeners + 1
       ELSE /\ paste' = [paste EXCEPT !.pc = "sleeping"]
            /\ UNCHANGED responseListeners
    /\ UNCHANGED <<pageState, closeListeners, crashListeners, apiCall>>
    /\ UNCHANGED <<vars_fo, vars_cfg, vars_w, vars_init, vars_q, vars_srv, vars_sel>>
    /\ UNCHANGED others_ops

\* `await sleep(2000, 4000)` of the default behaviour is over
PasteSleepDone ==
    /\ paste.pc = "sleeping"
    /\ paste' = [paste EXCEPT !.pc = "returned"]
    /\ UNCHANGED <<pageState, closeListeners, crashListeners, responseListeners, apiCall>>
    /\ UNCHANGED <<vars_fo, vars_cfg, vars_w, vars_init, vars_q, vars_srv, vars_sel>>
    /\ UNCHANGED others_ops

\* The 60 s timer of the upload confirmation fires: cleanup(), a warning, and
\* resolve(): pasteImages goes on after `await uploadPromise` and returns.
UploadTimeout ==
    /\ paste.pc = "waiting"
    /\ paste' = [paste EXCEPT !.pc = "returned", !.timedOut = TRUE]
    /\ responseListeners' = responseListeners - 1
    /\ UNCHANGED <<pageState, closeListeners, crashListeners, apiCall>>
    /\ UNCHANGED <<vars_fo, vars_cfg, vars_w, vars_init, vars_q, vars_srv, vars_sel>>
    /\ UNCHANGED others_ops

\* The page emits 'response'. forApi: the predicate of waitForResponse holds
\* of it; forUpload: options.uploadValidator(response) is true.
ResponseArrives(forApi, forUpload) ==
    /\ pageState = "open"
    /\ apiCall.pc = "waiting" \/ paste.pc = "waiting"
    /\ UNCHANGED pageState
    /\ IF apiCall.pc = "waiting" /\ forApi
       THEN apiExit("response")
       ELSE UNCHANGED <<apiCall, closeListeners, crashListeners>>
    /\ IF paste.pc = "waiting"
       THEN /\ paste.responses < MaxResponses
            /\ LET count == IF forUpload THEN paste.validated + 1
                            ELSE paste.validated
                   all == count >= paste.files
               IN  /\ paste' = [paste EXCEPT !.responses = @ + 1,
                                             !.validated = count,
                                             !.pc = IF all THEN "returned" ELSE @]
                   /\ responseListeners' = IF all THEN responseListeners - 1
                                           ELSE responseListeners
       ELSE UNCHANGED <<paste, responseListeners>>
    /\ UNCHANGED <<vars_fo, vars_cfg, vars_w, vars_init, vars_q, vars_srv, vars_sel>>
    /\ UNCHANGED others_ops

OpsInit == OpsIdle
InitOps == OpsInit /\ CfgIdle /\ WorkerIdle /\ FoIdle /\ InitIdle /\ QueryIdle
           /\ ServerIdle /\ SelIdle /\ AuthIdle /\ NavIdle /\ CfIdle /\ MonIdle
NextOps ==
    \/ CallWaitApiResponse
    \/ ApiTimeout
    \/ PageCloses
    \/ PageCrashes
    \/ \E n \in 0..MaxFiles, validator \in BOOLEAN : CallPasteImages(n, validator)
    \/ \E ok \in BOOLEAN : PasteClickSettles(ok)
    \/ \E outcome \in {"none", "refused", "uploaded"} : PasteScanSettles(outcome)
    \/ PasteSleepDone
    \/ UploadTimeout
    \/ \E forApi \in BOOLEAN, forUpload \in BOOLEAN : ResponseArrives(forApi, forUpload)
SpecOps == InitOps /\ [][NextOps]_vars

\* C36: an upload-confirmation wait that reaches its 60 s timeout makes
\* pasteImages throw, so that the generate attempt fails with an error and
\* does not go on as after a confirmed upload.
C36_UploadTimeoutThrows ==
    paste.timedOut => paste.pc = "threw"

\* The exits of a waitApiResponse call the statement names, and how they
\* relate to the page at entry and at exit.
ApiExitsAsStated(results) ==
    /\ apiCall.pc = "done" =>
          /\ apiCall.result \in results
          /\ apiCall.result = "PAGE_INVALID" <=> apiCall.entry = "closed"
          /\ apiCall.result = "PAGE_CLOSED" => apiCall.exit = "closed"
          /\ apiCall.result = "PAGE_CRASHED" => apiCall.exit = "crashed"
          /\ apiCall.result \in {"response", "TIMEOUT"} => apiCall.exit = apiCall.entry
    /\ apiCall.pc = "waiting" => pageState = apiCall.entry
ListenersRemoved ==
    apiCall.pc # "waiting" => closeListeners = {} /\ crashListeners = {}

\* C37 (as stated): a waitApiResponse call ends with PAGE_INVALID exactly
\* when the page is closed at entry, with PAGE_CLOSED or PAGE_CRASHED when
\* the page closes or crashes while it waits, and otherwise with the
\* matching response; after every exit its close and crash listeners are
\* off the page.
C37_Original ==
    /\ ApiExitsAsStated({"PAGE_INVALID", "PAGE_CLOSED", "PAGE_CRASHED", "response"})
    /\ ListenersRemoved

\* C37 (amended): ... and otherwise with the matching response or, when none
\* arrives within options.timeout, with the timeout error of waitForResponse.
C37_WaitApiResponse ==
    /\ ApiExitsAsStated({"PAGE_INVALID", "PAGE_CLOSED", "PAGE_CRASHED", "response",
                         "TIMEOUT"})
    /\ ListenersRemoved

\* A second call has ended with PAGE_CRASHED and left no listener behind.
C37_Witness ==
    /\ apiCall.pc = "done"
    /\ apiCall.calls = 2
    /\ apiCall.result = "PAGE_CRASHED"
    /\ closeListeners = {}
    /\ crashListeners = {}

(***************************************************************************)
(* getInstancesConfig and saveInstancesConfig                              *)
(***************************************************************************)

MaxCfgInstances == 1

\* A proxy block of an instance in the file. A missing block is NoFileProxy,
\* a missing string field is "", `enable` is "true", "false" or "undefined".
NoFileProxy == [present |-> FALSE, enable |-> "undefined", type |-> "",
                host |-> "", port |-> 0, user |-> "", passwd |-> ""]
FileProxies ==
    {NoFileProxy} \cup
    [present : {TRUE}, enable : {"true", "false", "undefined"},
     type : {"http", "socks5"}, host : {"h1"}, port : {8080},
     user : {"", "u1"}, passwd : {"", "s1"}]
FileInstances ==
    {Instance(n, m, p, ws) : n \in {"i1"}, m \in {"", "m1"},
                             p \in FileProxies, ws \in {<<W1>>, <<W2>>}}

\* `x || d` of JavaScript on a string and on a number
orElse(x, d) == IF x = "" THEN d ELSE x
orElseNumber(x, d) == IF x = 0 THEN d ELSE x

\* The proxy of an instance as getInstancesConfig returns it; null is NoDataProxy.
NoDataProxy == [present |-> FALSE, enable |-> FALSE, type |-> "", host |-> "",
                port |-> 0]
getProxy(proxy) ==
    IF proxy.present
    THEN [present |-> TRUE, enable |-> (proxy.enable = "true"),
          type |-> orElse(proxy.type, "http"), host |-> orElse(proxy.host, ""),
          port |-> orElseNumber(proxy.port, 0)]
    ELSE NoDataProxy
getWorker(w) == [name |-> w.name, type |-> w.type, mergeTypes |-> w.mergeTypes]
getInstance(inst) ==
    [name |-> inst.name, userDataMark |-> inst.userDataMark,
     proxy |-> getProxy(inst.proxy),
     workers |-> [k \in 1..Len(inst.workers) |-> getWorker(inst.workers[k])]]

\* The proxy block saveInstancesConfig writes for an instance of its argument.
\* The argument's proxy has no `username` / `password` when it comes from
\* getInstancesConfig, so neither user nor passwd is written.
saveProxy(proxy) ==
    IF proxy.present /\ proxy.enable
    THEN [present |-> TRUE, enable |-> "true", type |-> orElse(proxy.type, "http"),
          host |-> proxy.host, port |-> proxy.port, user |-> "", passwd |-> ""]
    ELSE NoFileProxy
saveWorker(w) ==
    [name |-> w.name, type |-> w.type,
     mergeTypes |-> IF w.type = "merge" THEN w.mergeTypes ELSE <<>>]
saveInstance(inst) ==
    [name |-> inst.name, userDataMark |-> inst.userDataMark,
     proxy |-> saveProxy(inst.proxy),
     workers |-> [k \in 1..Len(inst.workers) |-> saveWorker(inst.workers[k])]]

\* getInstancesConfig()
GetInstancesConfig ==
    /\ ~cfgData.read
    /\ cfgData' = [read |-> TRUE,
                   instances |-> [k \in 1..Len(rawConfig.instances) |->
                                    getInstance(rawConfig.instances[k])]]
    /\ UNCHANGED <<rawConfig, cfgOriginal>>
    /\ UNCHANGED <<vars_fo, vars_cfg, vars_w, vars_init, vars_q, vars_srv, vars_sel>>
    /\ UNCHANGED others_cf

\* saveInstancesConfig(data) with the data read before, unchanged
SaveInstancesConfig ==
    /\ cfgData.read
    /\ rawConfig' = [rawConfig EXCEPT !.instances =
                        [k \in 1..Len(cfgData.instances) |->
                            saveInstance(cfgData.instances[k])]]
    /\ cfgData' = NoData
    /\ UNCHANGED cfgOriginal
    /\ UNCHANGED <<vars_fo, vars_cfg, vars_w, vars_init, vars_q, vars_srv, vars_sel>>
    /\ UNCHANGED others_cf

CfInit ==
    /\ rawConfig \in [proxy : GlobalProxies,
                        instances : SeqsUpTo(FileInstances, MaxCfgInstances) \ {<<>>}]
    /\ cfgOriginal = rawConfig.instances
    /\ cfgData = NoData
InitCf == CfInit /\ CfgIdle /\ WorkerIdle /\ FoIdle /\ InitIdle /\ QueryIdle
          /\ ServerIdle /\ SelIdle /\ AuthIdle /\ NavIdle /\ OpsIdle /\ MonIdle
NextCf == GetInstancesConfig \/ SaveInstancesConfig
SpecCf == InitCf /\ [][NextCf]_vars

\* The connection an instance proxy block resolves to; the credentials of a
\* proxy are part of it.
resolved(proxy) == resolveProxyConfig(rawConfig.proxy, proxy)

\* C38: reading the instance configuration and saving it back leaves the
\* proxy each Instance resolves to as it was: direct for a disabled instance
\* proxy, and the same type, host, port and credentials for an enabled one.
C38_RoundTripKeepsProxy ==
    /\ Len(rawConfig.instances) = Len(cfgOriginal)
    /\ \A k \in 1..Len(cfgOriginal) :
          resolved(rawConfig.instances[k].proxy) = resolved(cfgOriginal[k].proxy)

(***************************************************************************)
(* Worker.navigateToMonitor next to generate calls                         *)
(***************************************************************************)

\* navigateToMonitor returns before `await this.page.goto(...)`
monitorNoOp ==
    \/ workerType # "merge"
    \/ mergeMonitor = "none"
    \/ monitorPage.closed
    \/ ~monitorPage.hasUrl
    \/ monitorPage.onMonitor

\* navigateToMonitor(), which its callers call when the Worker is idle, up to
\* a return or the await of page.goto
CallNavigateToMonitor ==
    /\ busyCount = 0
    /\ monitorCall.pc \in {"idle", "done"}
    /\ monitorCall' = IF monitorNoOp
                      THEN [pc |-> "done", navigated |-> FALSE, noop |-> TRUE]
                      ELSE [pc |-> "navigating", navigated |-> TRUE, noop |-> FALSE]
    /\ UNCHANGED <<mergeMonitor, monitorPage>>
    /\ UNCHANGED <<vars_fo, vars_cfg, vars_w, vars_init, vars_q, vars_srv, vars_sel>>
    /\ UNCHANGED others_mon

\* page.goto of navigateToMonitor resolves (ok) or throws; what it throws is
\* logged and swallowed.
MonitorGotoSettles(ok) ==
    /\ monitorCall.pc = "navigating"
    /\ monitorCall' = [monitorCall EXCEPT !.pc = "done"]
    /\ monitorPage' = [monitorPage EXCEPT !.onMonitor = (ok /\ ~monitorPage.closed)]
    /\ UNCHANGED mergeMonitor
    /\ UNCHANGED <<vars_fo, vars_cfg, vars_w, vars_init, vars_q, vars_srv, vars_sel>>
    /\ UNCHANGED others_mon

\* The adapter of a running task takes the page to its own site.
AdapterNavigates ==
    /\ busyCount > 0
    /\ monitorPage.onMonitor
    /\ monitorPage' = [monitorPage EXCEPT !.onMonitor = FALSE]
    /\ UNCHANGED <<mergeMonitor, monitorCall>>
    /\ UNCHANGED <<vars_fo, vars_cfg, vars_w, vars_init, vars_q, vars_srv, vars_sel>>
    /\ UNCHANGED others_mon

\* The page is closed.
MonitorPageCloses ==
    /\ ~monitorPage.closed
    /\ monitorPage' = [monitorPage EXCEPT !.closed = TRUE]
    /\ UNCHANGED <<mergeMonitor, monitorCall>>
    /\ UNCHANGED <<vars_fo, vars_cfg, vars_w, vars_init, vars_q, vars_srv, vars_sel>>
    /\ UNCHANGED others_mon

MonInit ==
    /\ mergeMonitor \in {"none", "c"}
    /\ monitorPage \in [closed : {FALSE}, onMonitor : BOOLEAN, hasUrl : BOOLEAN]
    /\ monitorCall = NoMonitorCall
InitMon == WorkerInit /\ MonInit /\ FoIdle /\ InitIdle /\ QueryIdle /\ ServerIdle
           /\ SelIdle /\ AuthIdle /\ NavIdle /\ OpsIdle /\ CfIdle
NextMon ==
    \/ WorkerNext({1}, {ModelM}, {0})
    \/ CallNavigateToMonitor
    \/ \E ok \in BOOLEAN : MonitorGotoSettles(ok)
    \/ AdapterNavigates
    \/ MonitorPageCloses
SpecMon == InitMon /\ [][NextMon]_vars

\* C39: a monitor navigation does not overlap a task on the page: while the
\* page.goto of navigateToMonitor is in progress the busy counter is 0 (it
\* was 0 when the navigation began and no generate call has begun to drive
\* the page since); and a call on a single Worker, without monitor, on a
\* closed page or on a page that is on the monitor's host navigates nowhere.
C39_MonitorNeverOverlapsTask ==
    /\ monitorCall.pc = "navigating" => busyCount = 0
    /\ monitorCall.pc = "navigating" =>
          workerType = "merge" /\ mergeMonitor # "none"
    /\ monitorCall.noop => ~monitorCall.navigated

====
